---- MODULE Spec2Model ----
(***************************************************************************)
(* A model of the feathertail column engine: the TinyFrame column store,   *)
(* the hash joins (joins/mod.rs), filter and sort (frame/mod.rs), the      *)
(* group-by (groupby.rs), the parallel fan-out layer (parallel/mod.rs) and *)
(* the chunked layer (chunked/mod.rs).                                     *)
(*                                                                         *)
(* Encoding.  Option<T> is a sequence of length 0 (None) or 1 (Some(x)).   *)
(* Every cell of a column is an Option; a non-nullable column (Int, Float, *)
(* Str, Bool) never holds None.  A ValueEnum is a pair <<kind, payload>>.  *)
(* Payloads are integers: a string is coded by its lexical rank, a bool by *)
(* 0/1, a float x.0 by x (the model holds only finite, integral floats).   *)
(* Row indices are 1-based here, 0-based in the source.                    *)
(***************************************************************************)
EXTENDS Integers, Sequences, FiniteSets, TLC

VARIABLES self, other, op, params, result, indices

vars == <<self, other, op, params, result, indices>>

\* ------------------------------------------------------------------------
\* Bounds of the model
\* ------------------------------------------------------------------------
MaxJoinRows == 2
NumJoinStr == 2
MaxFilterRows == 3
NumFilterVals == 2
MaxSortRows == 3
NumSortVals == 2
MaxGroupRows == 3
NumGroupStr == 2
NumGroupVals == 2
MaxMutRows == 2
MaxMutInt == 1
MaxDropNames == 2
MaxRecords == 3
MaxAggRows == 3
NumAggStr == 1
MaxArgRows == 1
MaxJoinKeys == 2
NumOrdVals == 2
MaxParRows == 3
NumParStr == 2

MaxChunkRows == 3
MaxSimdLen == 3
MaxSideRows == 2
MaxCalls == 2
MaxStreamRows == 3

\* ------------------------------------------------------------------------
\* Option and ValueEnum
\* ------------------------------------------------------------------------
None == <<>>

Some(x) == <<x>>

IsSome(o) == Len(o) = 1

IsNone(o) == Len(o) = 0

Unwrap(o) == o[1]

ValueEnum(kind, payload) == <<kind, payload>>

\* ------------------------------------------------------------------------
\* TinyColumn and TinyFrame
\* ------------------------------------------------------------------------
TinyColumn(type, data) == [type |-> type, data |-> data]

OptTypes == {"OptInt", "OptFloat", "OptStr", "OptBool"}

\* The nullable variant of a column type (create_optional_column's mapping).
OptionalOf(type) ==
  CASE type = "Int" -> "OptInt"
    [] type = "Float" -> "OptFloat"
    [] type = "Str" -> "OptStr"
    [] type = "Bool" -> "OptBool"
    [] type = "PyObject" -> "OptPyObject"
    [] type = "Mixed" -> "OptMixed"
    [] OTHER -> type

\* The ValueEnum kind a column type yields.
KindOf(type) ==
  CASE type \in {"Int", "OptInt"} -> "Int"
    [] type \in {"Float", "OptFloat"} -> "Float"
    [] type \in {"Str", "OptStr"} -> "Str"
    [] OTHER -> "Bool"

TinyFrame(columns, length) == [columns |-> columns, length |-> length]

\* TinyFrame::new(): no columns, no rows.
TinyFrame_new == TinyFrame(<<>>, 0)

ColNames(frame) == DOMAIN frame.columns

\* PyResult<TinyFrame>
Ok(frame) == [ok |-> TRUE, err |-> "", frame |-> frame]

Err(e) == [ok |-> FALSE, err |-> e, frame |-> TinyFrame_new]

NoResult == Err("not called")

\* The invariant of the Table data model: every column is as long as the
\* frame's row count.
FrameWellFormed(frame) ==
  \A c \in ColNames(frame) : Len(frame.columns[c].data) = frame.length

\* ------------------------------------------------------------------------
\* Sequence helpers
\* ------------------------------------------------------------------------
RECURSIVE Concat(_)
Concat(ss) == IF Len(ss) = 0 THEN <<>> ELSE Head(ss) \o Concat(Tail(ss))

Range(s) == {s[i] : i \in 1..Len(s)}

Upto(n) == [i \in 1..n |-> i]

RECURSIVE SumSeq(_)
SumSeq(s) == IF Len(s) = 0 THEN 0 ELSE Head(s) + SumSeq(Tail(s))

\* ------------------------------------------------------------------------
\* i64 arithmetic
\* ------------------------------------------------------------------------
\* The column integer type is i64; the model scales it down to the range
\* -I64Limit .. I64Limit - 1, so that I64Limit stands for i64::MAX + 1.
I64Limit == 16

\* Two's-complement wrap-around into the integer range.
wrap_i64(x) == ((x + I64Limit) % (2 * I64Limit)) - I64Limit

\* Iterator::sum::<i64>() over vals, as a build without overflow checks
\* computes it: every addition wraps.
RECURSIVE i64_sum(_)
i64_sum(vals) ==
  IF Len(vals) = 0 THEN 0
  ELSE wrap_i64(i64_sum(SubSeq(vals, 1, Len(vals) - 1)) + vals[Len(vals)])

\* The largest magnitude up to which every integer is an f64, scaled like
\* I64Limit: F64Exact stands for 2^53.
F64Exact == 8

\* `x as f64` for an i64 x: exact up to F64Exact; beyond it the f64 values
\* are the even integers and the nearest is taken, ties to the one with the
\* even mantissa (the multiple of 4).
i64_as_f64(x) ==
  IF (x <= F64Exact /\ x >= -F64Exact) \/ x % 2 = 0 THEN x
  ELSE IF (x + 1) % 4 = 0 THEN x + 1 ELSE x - 1

\* Some addition of Iterator::sum::<i64>() overflows: a build with overflow
\* checks panics there.
RECURSIVE i64_sum_overflows(_)
i64_sum_overflows(vals) ==
  IF Len(vals) = 0 THEN FALSE
  ELSE LET front == SubSeq(vals, 1, Len(vals) - 1)
           exact == i64_sum(front) + vals[Len(vals)]
       IN i64_sum_overflows(front) \/ exact >= I64Limit \/ exact < -I64Limit

\* ------------------------------------------------------------------------
\* joins/mod.rs
\* ------------------------------------------------------------------------
\* JoinOps::get_value_at_index: None past the end or on a null cell.
Join_get_value_at_index(col, index) ==
  IF index > Len(col.data) THEN None
  ELSE IF IsNone(col.data[index]) THEN None
  ELSE Some(ValueEnum(KindOf(col.type), Unwrap(col.data[index])))

\* The key Vec that build_key_map pushes for one row: the `continue` on a
\* null cell continues the loop over the key columns, so the null component
\* is left out and the row is still entered under the shortened key.
Join_row_key(frame, columns, row_idx) ==
  LET vals == [i \in 1..Len(columns) |->
                 Join_get_value_at_index(frame.columns[columns[i]], row_idx)]
  IN Concat([i \in 1..Len(columns) |->
               IF IsSome(vals[i]) THEN <<Unwrap(vals[i])>> ELSE <<>>])

\* JoinOps::build_key_map: key -> row indices in increasing order.
build_key_map(frame, columns) ==
  [key \in {Join_row_key(frame, columns, r) : r \in 1..frame.length} |->
     SelectSeq(Upto(frame.length),
               LAMBDA r : Join_row_key(frame, columns, r) = key)]

\* The keys of a key map in one iteration order (by first row index).  A
\* HashMap iterates in an unspecified order; the order only permutes the
\* output rows.
KeyOrder(frame, columns) ==
  LET km == build_key_map(frame, columns)
      firsts == SelectSeq(Upto(frame.length),
                  LAMBDA r : km[Join_row_key(frame, columns, r)][1] = r)
  IN [i \in 1..Len(firsts) |-> Join_row_key(frame, columns, firsts[i])]

\* One output row of a join: the left and right source rows (None: padded).
JoinRow(l, r) == [l |-> l, r |-> r]

Pairs(ls, rs) ==
  Concat([i \in 1..Len(ls) |->
            [j \in 1..Len(rs) |-> JoinRow(Some(ls[i]), Some(rs[j]))]])

LeftOnly(ls) == [i \in 1..Len(ls) |-> JoinRow(Some(ls[i]), None)]

RightOnly(rs) == [j \in 1..Len(rs) |-> JoinRow(None, Some(rs[j]))]

\* create_empty_column / create_optional_column
create_empty_column(col) == TinyColumn(col.type, <<>>)

create_optional_column(col) == TinyColumn(OptionalOf(col.type), <<>>)

ErrColumn == TinyColumn("TypeError", <<>>)

\* append_value_to_column: same type, or a non-optional source into its
\* optional type; anything else is the type-mismatch error.
append_value_to_column(col, source_col, source_idx) ==
  IF col.type = "TypeError" THEN col
  ELSE IF col.type = source_col.type \/ col.type = OptionalOf(source_col.type)
  THEN TinyColumn(col.type, Append(col.data, source_col.data[source_idx]))
  ELSE ErrColumn

\* append_null_to_column: push None, widening a non-optional column first.
append_null_to_column(col) ==
  IF col.type = "TypeError" THEN col
  ELSE TinyColumn(OptionalOf(col.type), Append(col.data, None))

\* One append: [null |-> BOOLEAN, src |-> column, idx |-> row].
AppendValue(src, idx) == [null |-> FALSE, src |-> src, idx |-> idx]

AppendNull(src) == [null |-> TRUE, src |-> src, idx |-> 0]

RECURSIVE ApplyAppends(_, _)
ApplyAppends(col, appends) ==
  IF Len(appends) = 0 THEN col
  ELSE LET a == Head(appends)
       IN ApplyAppends(IF a.null THEN append_null_to_column(col)
                       ELSE append_value_to_column(col, a.src, a.idx),
                       Tail(appends))

\* How many times a name stands in a key list.
Occurrences(name, names) ==
  Cardinality({i \in 1..Len(names) : names[i] = name})

Repeat(x, n) == [i \in 1..n |-> x]

\* The result of a join from its empty result columns, its number of output
\* rows and, for each column name, the appends made to that column in order.
BuildJoin(empty, result_length, appends) ==
  LET cols == [c \in DOMAIN empty |-> ApplyAppends(empty[c], appends[c])]
  IN IF \E c \in DOMAIN cols : cols[c].type = "TypeError"
     THEN Err("TypeError")
     ELSE Ok(TinyFrame(cols, result_length))

\* JoinOps::inner_join_impl
inner_join_impl(l, r, left_on, right_on) ==
  LET lk == build_key_map(l, left_on)
      rk == build_key_map(r, right_on)
      order == KeyOrder(l, left_on)
      rows == Concat([i \in 1..Len(order) |->
                IF order[i] \in DOMAIN rk
                THEN Pairs(lk[order[i]], rk[order[i]]) ELSE <<>>])
      lnon == ColNames(l) \ Range(left_on)
      rnon == ColNames(r) \ Range(right_on)
      empty == [c \in lnon \cup rnon \cup Range(left_on) |->
                  IF c \in Range(left_on) THEN create_empty_column(l.columns[c])
                  ELSE IF c \in rnon THEN create_empty_column(r.columns[c])
                  ELSE create_empty_column(l.columns[c])]
      Appends(c, row) ==
        (IF c \in lnon THEN <<AppendValue(l.columns[c], Unwrap(row.l))>> ELSE <<>>)
        \o (IF c \in rnon THEN <<AppendValue(r.columns[c], Unwrap(row.r))>> ELSE <<>>)
        \o (IF c \in Range(left_on)
            THEN Repeat(AppendValue(l.columns[c], Unwrap(row.l)),
                        Occurrences(c, left_on))
            ELSE <<>>)
  IN BuildJoin(empty, Len(rows),
       [c \in DOMAIN empty |->
          Concat([i \in 1..Len(rows) |-> Appends(c, rows[i])])])

\* JoinOps::left_join_impl
left_join_impl(l, r, left_on, right_on) ==
  LET lk == build_key_map(l, left_on)
      rk == build_key_map(r, right_on)
      order == KeyOrder(l, left_on)
      rows == Concat([i \in 1..Len(order) |->
                IF order[i] \in DOMAIN rk
                THEN Pairs(lk[order[i]], rk[order[i]])
                ELSE LeftOnly(lk[order[i]])])
      rnon == ColNames(r) \ Range(right_on)
      empty == [c \in ColNames(l) \cup rnon |->
                  IF c \in rnon THEN create_optional_column(r.columns[c])
                  ELSE create_empty_column(l.columns[c])]
      Appends(c, row) ==
        (IF c \in ColNames(l)
         THEN <<AppendValue(l.columns[c], Unwrap(row.l))>> ELSE <<>>)
        \o (IF c \in rnon
            THEN (IF IsSome(row.r)
                  THEN <<AppendValue(r.columns[c], Unwrap(row.r))>>
                  ELSE <<AppendNull(r.columns[c])>>)
            ELSE <<>>)
  IN BuildJoin(empty, Len(rows),
       [c \in DOMAIN empty |->
          Concat([i \in 1..Len(rows) |-> Appends(c, rows[i])])])

\* JoinOps::right_join_impl
right_join_impl(l, r, left_on, right_on) ==
  LET lk == build_key_map(l, left_on)
      rk == build_key_map(r, right_on)
      order == KeyOrder(r, right_on)
      rows == Concat([i \in 1..Len(order) |->
                IF order[i] \in DOMAIN lk
                THEN Pairs(lk[order[i]], rk[order[i]])
                ELSE RightOnly(rk[order[i]])])
      lnon == ColNames(l) \ Range(left_on)
      empty == [c \in lnon \cup ColNames(r) |->
                  IF c \in ColNames(r) THEN create_empty_column(r.columns[c])
                  ELSE create_optional_column(l.columns[c])]
      Appends(c, row) ==
        (IF c \in lnon
         THEN (IF IsSome(row.l)
               THEN <<AppendValue(l.columns[c], Unwrap(row.l))>>
               ELSE <<AppendNull(l.columns[c])>>)
         ELSE <<>>)
        \o (IF c \in ColNames(r)
            THEN <<AppendValue(r.columns[c], Unwrap(row.r))>> ELSE <<>>)
  IN BuildJoin(empty, Len(rows),
       [c \in DOMAIN empty |->
          Concat([i \in 1..Len(rows) |-> Appends(c, rows[i])])])

\* JoinOps::outer_join_impl
outer_join_impl(l, r, left_on, right_on) ==
  LET lk == build_key_map(l, left_on)
      rk == build_key_map(r, right_on)
      lorder == KeyOrder(l, left_on)
      rorder == KeyOrder(r, right_on)
      rows == Concat([i \in 1..Len(lorder) |->
                IF lorder[i] \in DOMAIN rk
                THEN Pairs(lk[lorder[i]], rk[lorder[i]])
                ELSE LeftOnly(lk[lorder[i]])])
              \o Concat([i \in 1..Len(rorder) |->
                   IF rorder[i] \in DOMAIN lk
                   THEN <<>> ELSE RightOnly(rk[rorder[i]])])
      ronly == ColNames(r) \ ColNames(l)
      empty == [c \in ColNames(l) \cup ColNames(r) |->
                  IF c \in ColNames(l) THEN create_optional_column(l.columns[c])
                  ELSE create_optional_column(r.columns[c])]
      Appends(c, row) ==
        IF IsSome(row.l)
        THEN (IF c \in ColNames(l)
              THEN <<AppendValue(l.columns[c], Unwrap(row.l))>> ELSE <<>>)
             \o (IF c \in ronly
                 THEN (IF IsSome(row.r)
                       THEN <<AppendValue(r.columns[c], Unwrap(row.r))>>
                       ELSE <<AppendNull(r.columns[c])>>)
                 ELSE <<>>)
        ELSE (IF c \in ColNames(l) THEN <<AppendNull(l.columns[c])>> ELSE <<>>)
             \o (IF c \in ColNames(r)
                 THEN <<AppendValue(r.columns[c], Unwrap(row.r))>> ELSE <<>>)
  IN BuildJoin(empty, Len(rows),
       [c \in DOMAIN empty |->
          Concat([i \in 1..Len(rows) |-> Appends(c, rows[i])])])

\* JoinOps::cross_join
cross_join(l, r) ==
  LET rows == Pairs(Upto(l.length), Upto(r.length))
      empty == [c \in ColNames(l) \cup ColNames(r) |->
                  IF c \in ColNames(l) THEN create_empty_column(l.columns[c])
                  ELSE create_empty_column(r.columns[c])]
      Appends(c, row) ==
        (IF c \in ColNames(l)
         THEN <<AppendValue(l.columns[c], Unwrap(row.l))>> ELSE <<>>)
        \o (IF c \in ColNames(r)
            THEN <<AppendValue(r.columns[c], Unwrap(row.r))>> ELSE <<>>)
  IN BuildJoin(empty, Len(rows),
       [c \in DOMAIN empty |->
          Concat([i \in 1..Len(rows) |-> Appends(c, rows[i])])])

\* JoinOps::perform_join: validation, then the join of the given type.
perform_join(l, r, left_on, right_on, join_type) ==
  IF \E i \in 1..Len(left_on) : left_on[i] \notin ColNames(l)
  THEN Err("KeyError")
  ELSE IF \E i \in 1..Len(right_on) : right_on[i] \notin ColNames(r)
  THEN Err("ValueError")
  ELSE IF Len(left_on) # Len(right_on)
  THEN Err("ValueError")
  ELSE CASE join_type = "Inner" -> inner_join_impl(l, r, left_on, right_on)
         [] join_type = "Left" -> left_join_impl(l, r, left_on, right_on)
         [] join_type = "Right" -> right_join_impl(l, r, left_on, right_on)
         [] OTHER -> outer_join_impl(l, r, left_on, right_on)

\* ------------------------------------------------------------------------
\* The join specification: two tables and a key configuration are drawn,
\* then one join is called.
\*   left : "id" (nullable string), "tag" (string)
\*   right: a string column and a nullable string column, named either
\*          "code", "ref" (no name shared with left), "tag", "id" (the
\*          names and types of left) or "id", "tag" (the names of left,
\*          the types the other way round).
\* ------------------------------------------------------------------------
JoinStr == 1..NumJoinStr

JoinRowsOfLen(n) == [1..n -> [a : {None} \cup {Some(s) : s \in JoinStr},
                               b : {Some(s) : s \in JoinStr}]]

JoinTables(optName, strName) ==
  {TinyFrame([c \in {optName, strName} |->
                IF c = optName
                THEN TinyColumn("OptStr", [i \in 1..Len(rows) |-> rows[i].a])
                ELSE TinyColumn("Str", [i \in 1..Len(rows) |-> rows[i].b])],
             Len(rows))
     : rows \in UNION {JoinRowsOfLen(n) : n \in 0..MaxJoinRows}}

RightNames == {<<"code", "ref">>, <<"tag", "id">>, <<"id", "tag">>}

JoinParams(rn) ==
  {[left_on |-> <<"id">>, right_on |-> <<rn[2]>>],
   [left_on |-> <<"id", "tag">>, right_on |-> <<rn[1], rn[2]>>]}

InitJoin ==
  /\ self \in JoinTables("id", "tag")
  /\ \E rn \in RightNames :
       /\ other \in JoinTables(rn[2], rn[1])
       /\ params \in JoinParams(rn)
  /\ op = "init"
  /\ result = NoResult
  /\ indices = <<>>

InnerJoin ==
  /\ op = "init"
  /\ op' = "inner_join"
  /\ result' = perform_join(self, other, params.left_on, params.right_on, "Inner")
  /\ UNCHANGED <<self, other, params, indices>>

LeftJoin ==
  /\ op = "init"
  /\ op' = "left_join"
  /\ result' = perform_join(self, other, params.left_on, params.right_on, "Left")
  /\ UNCHANGED <<self, other, params, indices>>

RightJoin ==
  /\ op = "init"
  /\ op' = "right_join"
  /\ result' = perform_join(self, other, params.left_on, params.right_on, "Right")
  /\ UNCHANGED <<self, other, params, indices>>

OuterJoin ==
  /\ op = "init"
  /\ op' = "outer_join"
  /\ result' = perform_join(self, other, params.left_on, params.right_on, "Outer")
  /\ UNCHANGED <<self, other, params, indices>>

CrossJoin ==
  /\ op = "init"
  /\ op' = "cross_join"
  /\ result' = cross_join(self, other)
  /\ UNCHANGED <<self, other, params, indices>>

NextJoin == InnerJoin \/ LeftJoin \/ RightJoin \/ OuterJoin \/ CrossJoin

SpecJoin == InitJoin /\ [][NextJoin]_vars

\* ------------------------------------------------------------------------
\* Claims about the joins (checked under SpecJoin)
\* ------------------------------------------------------------------------
KeyedJoinOps == {"inner_join", "left_join", "right_join", "outer_join"}

\* The key tuple of a row as the table holds it: one cell per key column,
\* a null cell included.
KeyTuple(frame, columns, row_idx) ==
  [i \in 1..Len(columns) |-> frame.columns[columns[i]].data[row_idx]]

HasNullKey(frame, columns, row_idx) ==
  \E i \in 1..Len(columns) : IsNone(frame.columns[columns[i]].data[row_idx])

\* The sum over the key tuples on both sides of (left count x right count)
\* is the number of (left row, right row) pairs with the same key tuple.
MatchingPairs ==
  {p \in (1..self.length) \X (1..other.length) :
     KeyTuple(self, params.left_on, p[1]) = KeyTuple(other, params.right_on, p[2])}

\* C1: the row count of an inner join is the sum, over the key tuples that
\* occur on both sides, of (left rows with the tuple) x (right rows with it).
C1_InnerJoinRowCount ==
  (op = "inner_join" /\ result.ok) =>
    result.frame.length = Cardinality(MatchingPairs)

\* C2: in a keyed join a row with a null in a join-key column is in no entry
\* of its side's key map, and no inner-join output row has a null join key.
C2_NullKeyRowsExcluded ==
  (op \in KeyedJoinOps) =>
    /\ LET km == build_key_map(self, params.left_on)
       IN \A key \in DOMAIN km : \A i \in 1..Len(km[key]) :
            ~HasNullKey(self, params.left_on, km[key][i])
    /\ LET km == build_key_map(other, params.right_on)
       IN \A key \in DOMAIN km : \A i \in 1..Len(km[key]) :
            ~HasNullKey(other, params.right_on, km[key][i])
    /\ (op = "inner_join" /\ result.ok) =>
         \A i \in 1..Len(params.left_on) :
           \A j \in 1..Len(result.frame.columns[params.left_on[i]].data) :
             IsSome(result.frame.columns[params.left_on[i]].data[j])

\* C3: a table a join returns has every column as long as its row count.
C3_JoinOutputWellFormed ==
  (op # "init" /\ result.ok) => FrameWellFormed(result.frame)

\* ------------------------------------------------------------------------
\* frame/mod.rs: filter
\* ------------------------------------------------------------------------
\* A Python literal handed to filter (value: &PyAny): <<kind, payload>> with
\* kind "Int", "Float", "Str" or "Bool".
PyValue(kind, payload) == <<kind, payload>>

\* py_value.extract::<f64>(): a Python int, float or bool converts, a str
\* does not (None: the extraction error).
extract_f64(py_value) ==
  IF py_value[1] \in {"Int", "Float", "Bool"} THEN Some(py_value[2]) ELSE None

\* py_value.extract::<String>(): only a Python str converts.
extract_String(py_value) ==
  IF py_value[1] = "Str" THEN Some(py_value[2]) ELSE None

\* TinyColumnIter: the values the iterator yields.  next() returns None at
\* the end of the column and also at a null cell of a nullable column, so
\* iteration ends at the first null.
TinyColumnIter(col) ==
  LET nulls == {i \in 1..Len(col.data) : IsNone(col.data[i])}
      n == IF nulls = {} THEN Len(col.data)
           ELSE (CHOOSE i \in nulls : \A j \in nulls : i <= j) - 1
  IN [i \in 1..n |-> ValueEnum(KindOf(col.type), Unwrap(col.data[i]))]

\* The closures |a, b| a == b, a != b, ... and the condition strings.
CompareFn(condition, a, b) ==
  CASE condition = "==" -> a = b
    [] condition = "!=" -> a # b
    [] condition = ">" -> a > b
    [] condition = "<" -> a < b
    [] condition = ">=" -> a >= b
    [] OTHER -> a <= b

\* PyResult<bool>
OkBool(b) == [err |-> "", m |-> b]

ErrBool(e) == [err |-> e, m |-> FALSE]

\* TinyFrame::compare_values
compare_values(val, py_value, condition) ==
  IF val[1] \in {"Int", "Float"}
  THEN (IF IsSome(extract_f64(py_value))
        THEN OkBool(CompareFn(condition, val[2], Unwrap(extract_f64(py_value))))
        ELSE ErrBool("TypeError"))
  ELSE OkBool(FALSE)

\* TinyFrame::compare_string_values
compare_string_values(val, py_value, condition) ==
  IF val[1] = "Str"
  THEN (IF IsSome(extract_String(py_value))
        THEN OkBool(CASE condition = "==" -> val[2] = Unwrap(extract_String(py_value))
                      [] condition = "!=" -> val[2] # Unwrap(extract_String(py_value))
                      [] OTHER -> FALSE)
        ELSE ErrBool("TypeError"))
  ELSE OkBool(FALSE)

\* TinyFrame::check_in_values
check_in_values(val, py_value) ==
  IF val[1] = "Str"
  THEN (IF IsSome(extract_String(py_value))
        THEN OkBool(val[2] = Unwrap(extract_String(py_value)))
        ELSE ErrBool("TypeError"))
  ELSE OkBool(FALSE)

\* The match arm of filter's loop body for one yielded value.
filter_matches(val, condition, py_value) ==
  CASE condition \in {"==", "!="} ->
         (IF val[1] = "Str" THEN compare_string_values(val, py_value, condition)
          ELSE compare_values(val, py_value, condition))
    [] condition \in {">", "<", ">=", "<="} -> compare_values(val, py_value, condition)
    [] condition = "in" -> check_in_values(val, py_value)
    [] condition = "not_in" ->
         LET r == check_in_values(val, py_value)
         IN IF r.err = "" THEN OkBool(~r.m) ELSE r
    [] OTHER -> ErrBool("ValueError")

\* A filter_by_indices that takes, for every index, the row before it (the
\* first row for the first index).
filter_by_indices_shifted(frame, idxs) ==
  Ok(TinyFrame([c \in ColNames(frame) |->
                  TinyColumn(frame.columns[c].type,
                             [i \in 1..Len(idxs) |->
                                frame.columns[c].data[IF idxs[i] > 1 THEN idxs[i] - 1
                                                      ELSE 1]])],
               Len(idxs)))

\* TinyFrame::filter_by_indices
filter_by_indices(frame, idxs) ==
  Ok(TinyFrame([c \in ColNames(frame) |->
                  TinyColumn(frame.columns[c].type,
                             [i \in 1..Len(idxs) |-> frame.columns[c].data[idxs[i]]])],
               Len(idxs)))

\* TinyFrame::filter
filter(frame, column, condition, py_value) ==
  IF column \notin ColNames(frame) THEN Err("KeyError")
  ELSE LET items == TinyColumnIter(frame.columns[column])
           ms == [i \in 1..Len(items) |-> filter_matches(items[i], condition, py_value)]
           bad == {i \in 1..Len(items) : ms[i].err # ""}
       IN IF bad # {}
          THEN Err(ms[CHOOSE i \in bad : \A j \in bad : i <= j].err)
          ELSE filter_by_indices(frame,
                 SelectSeq(Upto(Len(items)), LAMBDA i : ms[i].m))

\* ------------------------------------------------------------------------
\* parallel/mod.rs: parallel_filter
\* ------------------------------------------------------------------------
\* ParallelOps::get_value_at_index
Parallel_get_value_at_index(col, index) ==
  IF index > Len(col.data) THEN None
  ELSE IF IsNone(col.data[index]) THEN None
  ELSE IF col.type \in {"Mixed", "OptMixed"} THEN col.data[index]
  ELSE Some(ValueEnum(KindOf(col.type), Unwrap(col.data[index])))

\* FilterCondition::convert_py_value: extract::<i64> is tried first and takes
\* a Python int and a Python bool (an int subclass); then f64, then String.
convert_py_value(py_value) ==
  CASE py_value[1] \in {"Int", "Bool"} -> ValueEnum("Int", py_value[2])
    [] py_value[1] = "Float" -> ValueEnum("Float", py_value[2])
    [] OTHER -> ValueEnum("Str", py_value[2])

\* std::cmp::Ordering of two payloads.
Ordering(x, y) == IF x < y THEN "Less" ELSE IF x > y THEN "Greater" ELSE "Equal"

\* FilterCondition::compare_values: values of different kinds are Equal.
FilterCondition_compare_values(a, b) ==
  IF a[1] = b[1] /\ a[1] \in {"Int", "Float", "Str", "Bool"}
  THEN Ordering(a[2], b[2]) ELSE "Equal"

\* FilterCondition::evaluate
evaluate(condition, value, val) ==
  LET o == FilterCondition_compare_values(val, value)
  IN CASE condition = "==" -> o = "Equal"
       [] condition = "!=" -> o # "Equal"
       [] condition = ">" -> o = "Greater"
       [] condition = "<" -> o = "Less"
       [] condition = ">=" -> o # "Less"
       [] condition = "<=" -> o # "Greater"
       [] OTHER -> FALSE

\* ParallelOps::filter_column: only the four non-nullable types.
filter_column(col, mask) ==
  IF col.type \in {"Int", "Float", "Str", "Bool"}
  THEN TinyColumn(col.type,
         LET keep == SelectSeq(Upto(Len(col.data)), LAMBDA i : mask[i])
         IN [i \in 1..Len(keep) |-> col.data[keep[i]]])
  ELSE ErrColumn

\* ParallelOps::apply_mask
apply_mask(frame, mask) ==
  LET cols == [c \in ColNames(frame) |-> filter_column(frame.columns[c], mask)]
  IN IF \E c \in ColNames(frame) : cols[c].type = "TypeError"
     THEN Err("TypeError")
     ELSE Ok(TinyFrame(cols, Cardinality({i \in 1..Len(mask) : mask[i]})))

\* ParallelOps::parallel_filter
parallel_filter(frame, column, condition, py_value) ==
  IF column \notin ColNames(frame) THEN Err("KeyError")
  ELSE LET value == convert_py_value(py_value)
           mask == [i \in 1..frame.length |->
                      LET v == Parallel_get_value_at_index(frame.columns[column], i)
                      IN IF IsSome(v) THEN evaluate(condition, value, Unwrap(v))
                         ELSE FALSE]
       IN apply_mask(frame, mask)

\* ------------------------------------------------------------------------
\* The filter specification: a table with a column "v" of some type and
\* a row-number column "id", an operator and a literal are drawn; then
\* filter or parallel_filter is called.
\* ------------------------------------------------------------------------
FilterVals == 1..NumFilterVals

BoolVals == {0, 1}

CellsOf(type) ==
  CASE type = "Bool" -> {Some(b) : b \in BoolVals}
    [] type = "OptInt" -> {None} \cup {Some(x) : x \in FilterVals}
    [] OTHER -> {Some(x) : x \in FilterVals}

FilterTypes == {"Int", "Float", "Str", "Bool", "OptInt"}

FilterFrames ==
  {TinyFrame([c \in {"v", "id"} |->
                IF c = "v" THEN TinyColumn(type, data)
                ELSE TinyColumn("Int", [i \in 1..Len(data) |-> Some(i)])],
             Len(data))
     : <<type, data>> \in UNION {{type} \X [1..n -> CellsOf(type)]
                                   : <<type, n>> \in FilterTypes \X (0..MaxFilterRows)}}

Conditions == {"==", "!=", ">", "<", ">=", "<=", "in", "not_in", "like"}

PyValues ==
  ({"Int", "Float", "Str"} \X FilterVals) \cup ({"Bool"} \X BoolVals)

InitFilter ==
  /\ self \in FilterFrames
  /\ other = TinyFrame_new
  /\ params \in [column : {"v"}, condition : Conditions, value : PyValues]
  /\ op = "init"
  /\ result = NoResult
  /\ indices = <<>>

Filter ==
  /\ op = "init"
  /\ op' = "filter"
  /\ result' = filter(self, params.column, params.condition, params.value)
  /\ UNCHANGED <<self, other, params, indices>>

ParallelFilter ==
  /\ op = "init"
  /\ op' = "parallel_filter"
  /\ result' = parallel_filter(self, params.column, params.condition, params.value)
  /\ UNCHANGED <<self, other, params, indices>>

\* filter applied to the table a successful filter returned, with the same
\* arguments; `other` keeps the first result.
FilterAgain ==
  /\ op = "filter"
  /\ result.ok
  /\ op' = "filter_again"
  /\ other' = result.frame
  /\ result' = filter(result.frame, params.column, params.condition, params.value)
  /\ UNCHANGED <<self, params, indices>>

NextFilter == Filter \/ ParallelFilter \/ FilterAgain

SpecFilter == InitFilter /\ [][NextFilter]_vars

\* ------------------------------------------------------------------------
\* Claims about filter (checked under SpecFilter)
\* ------------------------------------------------------------------------
ComparisonOps == {"==", "!=", ">", "<", ">=", "<="}

\* The calls whose meaning the filter contract fixes: a numeric column
\* against a numeric literal under a comparison operator, or a string
\* column against a string literal under == or !=.
FilterInScope ==
  \/ /\ self.columns[params.column].type \in {"Int", "Float", "OptInt"}
     /\ params.value[1] \in {"Int", "Float"}
     /\ params.condition \in ComparisonOps
  \/ /\ self.columns[params.column].type = "Str"
     /\ params.value[1] = "Str"
     /\ params.condition \in {"==", "!="}

\* Row i satisfies the predicate: its value is not null and stands in the
\* operator's relation to the literal.
RowSatisfies(i) ==
  LET cell == self.columns[params.column].data[i]
  IN /\ IsSome(cell)
     /\ CASE params.condition = "==" -> Unwrap(cell) = params.value[2]
          [] params.condition = "!=" -> Unwrap(cell) # params.value[2]
          [] params.condition = ">" -> Unwrap(cell) > params.value[2]
          [] params.condition = "<" -> Unwrap(cell) < params.value[2]
          [] params.condition = ">=" -> Unwrap(cell) >= params.value[2]
          [] OTHER -> Unwrap(cell) <= params.value[2]

SatisfyingRows == SelectSeq(Upto(self.length), LAMBDA i : RowSatisfies(i))

\* C4: filter returns exactly the rows whose value satisfies the operator
\* against the literal, in their original order; a null row is not kept.
C4_FilterReturnsMatchingRows ==
  (op = "filter" /\ FilterInScope) =>
    /\ result.ok
    /\ result.frame.length = Len(SatisfyingRows)
    /\ \A c \in ColNames(self) :
         result.frame.columns[c].data =
           [i \in 1..Len(SatisfyingRows) |-> self.columns[c].data[SatisfyingRows[i]]]

\* The set of rows of a table.
RowSet(f) ==
  {[c \in ColNames(f) |-> f.columns[c].data[i]] : i \in 1..f.length}

\* C5: under a comparison operator parallel_filter returns the same set of
\* rows as the single-threaded filter.
C5_ParallelFilterSameRows ==
  (op = "parallel_filter" /\ params.condition \in ComparisonOps) =>
    LET single == filter(self, params.column, params.condition, params.value)
    IN (result.ok /\ single.ok) => RowSet(result.frame) = RowSet(single.frame)

\* ------------------------------------------------------------------------
\* frame/mod.rs: sort_values
\* ------------------------------------------------------------------------
\* TinyFrame::get_value_at_index: the f64 sort key of a cell; only the
\* numeric column types yield one, every other type yields None.
Frame_get_value_at_index(column, index) ==
  IF column.type \in {"Int", "Float", "OptInt", "OptFloat"}
  THEN column.data[index] ELSE None

\* TinyFrame::compare_for_sort
compare_for_sort(val_a, val_b) ==
  CASE IsSome(val_a) /\ IsSome(val_b) -> Ordering(Unwrap(val_a), Unwrap(val_b))
    [] IsSome(val_a) /\ IsNone(val_b) -> "Less"
    [] IsNone(val_a) /\ IsSome(val_b) -> "Greater"
    [] OTHER -> "Equal"

\* Ordering::reverse
Reverse(o) ==
  CASE o = "Less" -> "Greater" [] o = "Greater" -> "Less" [] OTHER -> "Equal"

\* The closure sort_values hands to sort_by: the first key column on which
\* rows a and b differ decides, reversed when descending.
RECURSIVE sort_values_cmp(_, _, _, _, _)
sort_values_cmp(frame, by, ascending, a, b) ==
  IF Len(by) = 0 THEN "Equal"
  ELSE LET col == frame.columns[Head(by)]
           comparison == compare_for_sort(Frame_get_value_at_index(col, a),
                                          Frame_get_value_at_index(col, b))
       IN IF comparison # "Equal"
          THEN (IF ascending THEN comparison ELSE Reverse(comparison))
          ELSE sort_values_cmp(frame, Tail(by), ascending, a, b)

\* An insertion that is not stable: the element also moves left past the
\* elements it compares Equal to.
RECURSIVE InsertSortedUnstable(_, _, _)
InsertSortedUnstable(sorted, x, cmp) ==
  IF Len(sorted) = 0 THEN <<x>>
  ELSE LET last == sorted[Len(sorted)]
       IN IF cmp[x][last] # "Greater"
          THEN Append(InsertSortedUnstable(SubSeq(sorted, 1, Len(sorted) - 1), x, cmp), last)
          ELSE Append(sorted, x)

\* slice::sort_by is a stable sort.  Under a comparator that is a total
\* preorder its result is unique; it is computed here by insertion: an
\* element moves left only past elements it is strictly Less than.
\* cmp[a][b] is the comparator's answer for (a, b).
RECURSIVE InsertSorted(_, _, _)
InsertSorted(sorted, x, cmp) ==
  IF Len(sorted) = 0 THEN <<x>>
  ELSE LET last == sorted[Len(sorted)]
       IN IF cmp[x][last] = "Less"
          THEN Append(InsertSorted(SubSeq(sorted, 1, Len(sorted) - 1), x, cmp), last)
          ELSE Append(sorted, x)

RECURSIVE sort_by(_, _)
sort_by(idxs, cmp) ==
  IF Len(idxs) = 0 THEN <<>>
  ELSE InsertSorted(sort_by(SubSeq(idxs, 1, Len(idxs) - 1), cmp),
                    idxs[Len(idxs)], cmp)

\* The sorted index vector of sort_values.
sort_values_indices(frame, by, ascending) ==
  sort_by(Upto(frame.length),
          [a \in 1..frame.length |-> [b \in 1..frame.length |->
             sort_values_cmp(frame, by, ascending, a, b)]])

\* ascending.unwrap_or(true)
unwrap_or_true(ascending) == IF IsSome(ascending) THEN Unwrap(ascending) ELSE TRUE

\* TinyFrame::sort_values
sort_values(frame, by, ascending) ==
  IF frame.length = 0 THEN Ok(frame)
  ELSE IF \E i \in 1..Len(by) : by[i] \notin ColNames(frame) THEN Err("KeyError")
  ELSE filter_by_indices(frame,
         sort_values_indices(frame, by, unwrap_or_true(ascending)))

\* ------------------------------------------------------------------------
\* parallel/mod.rs: parallel_sort
\* ------------------------------------------------------------------------
\* The sort key of row i: filter_map leaves out the null components.
sort_key(frame, by, i) ==
  LET vals == [k \in 1..Len(by) |->
                 Parallel_get_value_at_index(frame.columns[by[k]], i)]
  IN Concat([k \in 1..Len(by) |->
               IF IsSome(vals[k]) THEN <<Unwrap(vals[k])>> ELSE <<>>])

\* ParallelOps::compare_values: values of different kinds are Equal.
Parallel_compare_values(a, b) ==
  IF a[1] = b[1] /\ a[1] \in {"Int", "Float", "Str", "Bool"}
  THEN Ordering(a[2], b[2]) ELSE "Equal"

\* ParallelOps::compare_sort_keys: over the zip of the two keys.
RECURSIVE compare_sort_keys(_, _, _)
compare_sort_keys(a, b, ascending) ==
  IF Len(a) = 0 \/ Len(b) = 0 THEN "Equal"
  ELSE LET cmp == Parallel_compare_values(Head(a), Head(b))
       IN IF cmp # "Equal"
          THEN (IF ascending THEN cmp ELSE Reverse(cmp))
          ELSE compare_sort_keys(Tail(a), Tail(b), ascending)

\* ParallelOps::sort_column: only the four non-nullable types.
sort_column(col, idxs) ==
  IF col.type \in {"Int", "Float", "Str", "Bool"}
  THEN TinyColumn(col.type, [i \in 1..Len(idxs) |-> col.data[idxs[i]]])
  ELSE ErrColumn

\* ParallelOps::create_sorted_frame
create_sorted_frame(frame, idxs) ==
  LET cols == [c \in ColNames(frame) |-> sort_column(frame.columns[c], idxs)]
  IN IF \E c \in ColNames(frame) : cols[c].type = "TypeError"
     THEN Err("TypeError")
     ELSE Ok(TinyFrame(cols, frame.length))

\* The sorted index vector of parallel_sort (par_sort_by is stable too).
parallel_sort_indices(frame, by, ascending) ==
  sort_by(Upto(frame.length),
          [a \in 1..frame.length |-> [b \in 1..frame.length |->
             compare_sort_keys(sort_key(frame, by, a), sort_key(frame, by, b),
                               ascending)]])

\* ParallelOps::parallel_sort
parallel_sort(frame, by, ascending) ==
  IF Len(by) = 0 THEN Err("ValueError")
  ELSE IF \E i \in 1..Len(by) : by[i] \notin ColNames(frame) THEN Err("KeyError")
  ELSE IF frame.length = 0 THEN Ok(frame)
  ELSE create_sorted_frame(frame,
         parallel_sort_indices(frame, by, unwrap_or_true(ascending)))

\* ------------------------------------------------------------------------
\* The sort specification: a table with a key column "a" of some type and a
\* string column "b", a key list and a direction are drawn; then
\* sort_values or parallel_sort is called.
\* ------------------------------------------------------------------------
SortVals == 1..NumSortVals

SortCellsOf(type) ==
  CASE type = "Bool" -> {Some(b) : b \in BoolVals}
    [] type = "OptInt" -> {None} \cup {Some(x) : x \in SortVals}
    [] OTHER -> {Some(x) : x \in SortVals}

SortTypes == {"Int", "Float", "Str", "Bool", "OptInt"}

SortFrames ==
  {TinyFrame([c \in {"a", "b"} |->
                IF c = "a" THEN TinyColumn(t[1], t[2]) ELSE TinyColumn("Str", t[3])],
             Len(t[2]))
     : t \in UNION {{type} \X [1..n -> SortCellsOf(type)] \X [1..n -> SortCellsOf("Str")]
                      : <<type, n>> \in SortTypes \X (0..MaxSortRows)}}

InitSort ==
  /\ self \in SortFrames
  /\ other = TinyFrame_new
  /\ params \in [by : {<<"a">>, <<"a", "b">>, <<"b", "a">>},
                 ascending : {None, Some(TRUE), Some(FALSE)}]
  /\ op = "init"
  /\ result = NoResult
  /\ indices = <<>>

SortValues ==
  /\ op = "init"
  /\ op' = "sort_values"
  /\ result' = sort_values(self, params.by, params.ascending)
  /\ indices' = sort_values_indices(self, params.by, unwrap_or_true(params.ascending))
  /\ UNCHANGED <<self, other, params>>

ParallelSort ==
  /\ op = "init"
  /\ op' = "parallel_sort"
  /\ result' = parallel_sort(self, params.by, params.ascending)
  /\ indices' = parallel_sort_indices(self, params.by, unwrap_or_true(params.ascending))
  /\ UNCHANGED <<self, other, params>>

NextSort == SortValues \/ ParallelSort

SpecSort == InitSort /\ [][NextSort]_vars

\* ------------------------------------------------------------------------
\* Sort claims
\* ------------------------------------------------------------------------
\* The rows of a frame in order: row i as a function from column name to cell.
RowSeq(frame) ==
  [i \in 1..frame.length |-> [c \in ColNames(frame) |-> frame.columns[c].data[i]]]

\* The cells of row i of the input in the key columns.
SortKeyCells(i) == [k \in 1..Len(params.by) |-> self.columns[params.by[k]].data[i]]

\* C6: parallel_sort returns the same frame, rows in the same order, as
\* sort_values with the same keys and direction, whatever the kind of the
\* key columns.
C6_ParallelSortSameOrder ==
  op = "parallel_sort" =>
    LET single == sort_values(self, params.by, params.ascending)
    IN single.ok => (result.ok /\ RowSeq(result.frame) = RowSeq(single.frame))

\* C9: sort_values is stable in both directions: the output is the input
\* gathered through the sorted index vector, and two rows whose key cells
\* are equal on every key column keep their input order.
C9_SortValuesStable ==
  (op = "sort_values" /\ result.ok /\ self.length > 0) =>
    /\ Len(indices) = self.length
    /\ RowSeq(result.frame) = [p \in 1..self.length |-> RowSeq(self)[indices[p]]]
    /\ \A p, q \in 1..Len(indices) :
         (p < q /\ SortKeyCells(indices[p]) = SortKeyCells(indices[q]))
           => indices[p] < indices[q]

\* Witness of C9: sort_values moved some row, and two rows with equal key
\* cells that differ in another column are present in the input.
C9_Witness ==
  /\ op = "sort_values" /\ result.ok
  /\ indices # Upto(self.length)
  /\ \E i, j \in 1..self.length :
       /\ i < j
       /\ SortKeyCells(i) = SortKeyCells(j)
       /\ RowSeq(self)[i] # RowSeq(self)[j]

\* The native order of two cells of one column: numbers numerically,
\* strings lexically, false before true; an absent value is not below a
\* present one.
CellLeq(x, y) == IsNone(y) \/ (IsSome(x) /\ Unwrap(x) <= Unwrap(y))

\* Lexicographic order of two key tuples under CellLeq.
RECURSIVE LexLeq(_, _)
LexLeq(ka, kb) ==
  IF Len(ka) = 0 THEN TRUE
  ELSE IF Head(ka) = Head(kb) THEN LexLeq(Tail(ka), Tail(kb))
  ELSE CellLeq(Head(ka), Head(kb))

\* C10: after an ascending sort_values the rows are in non-decreasing
\* lexicographic order of their key tuples under each column's native
\* ordering, and the output is a permutation of the input rows.
C10_SortValuesOrdered ==
  (op = "sort_values" /\ result.ok /\ unwrap_or_true(params.ascending)) =>
    /\ Len(indices) = self.length
    /\ Range(indices) = 1..self.length
    /\ RowSeq(result.frame) = [p \in 1..self.length |-> RowSeq(self)[indices[p]]]
    /\ \A p \in 1..(self.length - 1) :
         LexLeq(SortKeyCells(indices[p]), SortKeyCells(indices[p + 1]))

\* ------------------------------------------------------------------------
\* groupby.rs: TinyGroupBy
\* ------------------------------------------------------------------------
\* A HashMap is iterated in an order the program does not fix: the possible
\* iteration orders of a map with key set S.
Orderings(S) == {s \in [1..Cardinality(S) -> S] : Range(s) = S}

\* The ascending sequence of the members of a set of row indices.
RECURSIVE SortedSeq(_)
SortedSeq(S) ==
  IF S = {} THEN <<>>
  ELSE LET m == CHOOSE x \in S : \A y \in S : x <= y
       IN <<m>> \o SortedSeq(S \ {m})

\* TinyGroupBy::new, the key of a row: one Option<String> per key column;
\* an absent cell is a key component like any other.
GroupBy_row_key(frame, keys, row_idx) ==
  [k \in 1..Len(keys) |-> frame.columns[keys[k]].data[row_idx]]

\* TinyGroupBy::new: the groups map, key -> row indices in row order.
TinyGroupBy_groups(frame, keys) ==
  LET keyset == {GroupBy_row_key(frame, keys, i) : i \in 1..frame.length}
  IN [key \in keyset |->
        SortedSeq({i \in 1..frame.length : GroupBy_row_key(frame, keys, i) = key})]

\* TinyGroupBy::new: the error it raises, "" when it builds the groups.
TinyGroupBy_new_error(frame, keys) ==
  LET bad == {k \in 1..Len(keys) :
                \/ keys[k] \notin ColNames(frame)
                \/ frame.columns[keys[k]].type \notin {"Str", "OptStr"}}
      first == CHOOSE k \in bad : \A j \in bad : k <= j
  IN IF bad = {} THEN ""
     ELSE IF keys[first] \notin ColNames(frame) THEN "KeyError" ELSE "TypeError"

\* row_indices.iter().filter_map(|&i| v[i]): the non-null target values
\* of a group, in row order.
non_null_values(column, row_indices) ==
  Concat([n \in 1..Len(row_indices) |->
            IF IsSome(column.data[row_indices[n]])
            THEN <<Unwrap(column.data[row_indices[n]])>> ELSE <<>>])

\* The f64 of a cell value of the column: a cast for an integer column.
as_f64(column, x) ==
  IF column.type \in {"Int", "OptInt"} THEN i64_as_f64(x) ELSE x

\* The non-null values of the rows, each as f64.
f64_values(column, row_indices) ==
  LET values == non_null_values(column, row_indices)
  IN [n \in 1..Len(values) |-> as_f64(column, values[n])]

\* TinyGroupBy::calculate_sum: null cells are left out; Some(sum) for the
\* numeric column types (Some(0) when nothing is left), None otherwise.
\* An integer column is summed in i64 (wrapping, see i64_sum), a float
\* column in f64.
calculate_sum(column, row_indices) ==
  CASE column.type \in {"Int", "OptInt"} ->
         Some(i64_as_f64(i64_sum(non_null_values(column, row_indices))))
    [] column.type \in {"Float", "OptFloat"} ->
         Some(SumSeq(non_null_values(column, row_indices)))
    [] OTHER -> None

\* An f64 result that need not be integral is kept exact, as the pair
\* <<numerator, denominator>>; a square root is kept as <<"sqrt", x>>.
Ratio(num, den) == <<num, den>>

Sqrt(x) == <<"sqrt", x>>

IsNumeric(column) == column.type \in {"Int", "Float", "OptInt", "OptFloat"}

\* The sum a mean is divided from: i64 for an integer column, f64 for a
\* float column.
mean_sum(column, values) ==
  IF column.type \in {"Int", "OptInt"}
  THEN i64_as_f64(i64_sum(values)) ELSE SumSeq(values)

\* TinyGroupBy::calculate_mean: None when no non-null value is left.
calculate_mean(column, row_indices) ==
  LET values == non_null_values(column, row_indices)
  IN IF IsNumeric(column) /\ Len(values) > 0
     THEN Some(Ratio(mean_sum(column, values), Len(values)))
     ELSE None

\* TinyGroupBy::calculate_min / calculate_max: None on an empty iterator.
calculate_min(column, row_indices) ==
  LET values == non_null_values(column, row_indices)
  IN IF IsNumeric(column) /\ Len(values) > 0
     THEN Some(as_f64(column,
                      CHOOSE x \in Range(values) : \A y \in Range(values) : x <= y))
     ELSE None

calculate_max(column, row_indices) ==
  LET values == non_null_values(column, row_indices)
  IN IF IsNumeric(column) /\ Len(values) > 0
     THEN Some(as_f64(column,
                      CHOOSE x \in Range(values) : \A y \in Range(values) : x >= y))
     ELSE None

\* TinyGroupBy::calculate_variance_with_mean with the mean of
\* calculate_mean, m = s / n: sum((x - m)^2) / n, which is
\* (n * sum(x^2) - 2 * s * sum(x) + s^2) / n^2.
calculate_var(column, row_indices) ==
  LET values == f64_values(column, row_indices)
      n == Len(values)
      s == mean_sum(column, non_null_values(column, row_indices))
      sum_x == SumSeq(values)
      sum_xx == SumSeq([k \in 1..n |-> values[k] * values[k]])
  IN IF IsNumeric(column) /\ n > 0
     THEN Some(Ratio(n * sum_xx - 2 * s * sum_x + s * s, n * n))
     ELSE None

\* TinyGroupBy::calculate_std: the square root of the variance.
calculate_std(column, row_indices) ==
  IF IsSome(calculate_var(column, row_indices))
  THEN Some(Sqrt(Unwrap(calculate_var(column, row_indices))))
  ELSE None

\* TinyGroupBy::calculate_median: the middle of the sorted non-null values.
calculate_median(column, row_indices) ==
  LET unsorted == f64_values(column, row_indices)
      n == Len(unsorted)
      order == sort_by(Upto(n), [a \in 1..n |-> [b \in 1..n |->
                                   Ordering(unsorted[a], unsorted[b])]])
      values == [k \in 1..n |-> unsorted[order[k]]]
      mid == n \div 2
  IN IF ~IsNumeric(column) \/ n = 0 THEN None
     ELSE IF n % 2 = 0 THEN Some(Ratio(values[mid] + values[mid + 1], 2))
     ELSE Some(Ratio(values[mid + 1], 1))

\* TinyGroupBy::calculate_first / calculate_last: the target cell of the
\* group's first / last row, null if that cell is null.
calculate_first(column, row_indices) ==
  IF Len(row_indices) = 0 \/ ~IsNumeric(column) THEN None
  ELSE IF IsNone(column.data[row_indices[1]]) THEN None
  ELSE Some(as_f64(column, Unwrap(column.data[row_indices[1]])))

calculate_last(column, row_indices) ==
  IF Len(row_indices) = 0 \/ ~IsNumeric(column) THEN None
  ELSE IF IsNone(column.data[row_indices[Len(row_indices)]]) THEN None
  ELSE Some(as_f64(column, Unwrap(column.data[row_indices[Len(row_indices)]])))

AggTypes == {"sum", "mean", "min", "max", "std", "var", "median", "first", "last"}

\* The match on agg_type in aggregate_column.
agg_value(agg_type, column, row_indices) ==
  CASE agg_type = "sum" -> calculate_sum(column, row_indices)
    [] agg_type = "mean" -> calculate_mean(column, row_indices)
    [] agg_type = "min" -> calculate_min(column, row_indices)
    [] agg_type = "max" -> calculate_max(column, row_indices)
    [] agg_type = "std" -> calculate_std(column, row_indices)
    [] agg_type = "var" -> calculate_var(column, row_indices)
    [] agg_type = "median" -> calculate_median(column, row_indices)
    [] agg_type = "first" -> calculate_first(column, row_indices)
    [] OTHER -> calculate_last(column, row_indices)

\* TinyGroupBy::aggregate_column, the groups iterated in `order`.
aggregate_column(frame, keys, column_name, agg_type, order) ==
  IF column_name \notin ColNames(frame) THEN Err("KeyError")
  ELSE IF agg_type \notin AggTypes THEN Err("ValueError")
  ELSE LET groups == TinyGroupBy_groups(frame, keys)
           agg_name == column_name \o "_" \o agg_type
           names == Range(keys) \cup {agg_name}
           key_pos(c) == CHOOSE k \in 1..Len(keys) :
                           keys[k] = c /\ \A j \in 1..Len(keys) : keys[j] = c => j <= k
           cols == [c \in names |->
                      IF c = agg_name
                      THEN TinyColumn("OptFloat",
                             [n \in 1..Len(order) |->
                                agg_value(agg_type, frame.columns[column_name],
                                          groups[order[n]])])
                      ELSE TinyColumn("OptStr",
                             [n \in 1..Len(order) |-> order[n][key_pos(c)]])]
       IN Ok(TinyFrame(cols, Len(order)))

\* TinyGroupBy::aggregate_column for "sum", the groups iterated in `order`.
aggregate_column_sum(frame, keys, column_name, order) ==
  aggregate_column(frame, keys, column_name, "sum", order)

\* Some group's i64 sum overflows in an aggregate that sums an integer
\* column in i64 (sum, mean, and std / var through the mean).
agg_overflows(frame, keys, column_name, agg_type) ==
  /\ column_name \in ColNames(frame)
  /\ frame.columns[column_name].type \in {"Int", "OptInt"}
  /\ agg_type \in {"sum", "mean", "std", "var"}
  /\ \E key \in DOMAIN TinyGroupBy_groups(frame, keys) :
       i64_sum_overflows(non_null_values(frame.columns[column_name],
                                         TinyGroupBy_groups(frame, keys)[key]))

\* frame.groupby(keys).<agg>(frame, column): the set of results it can
\* return: one frame per iteration order of the groups map; when an i64 sum
\* overflows, these frames hold the wrapped sums (a build without overflow
\* checks) and a build with overflow checks panics instead.
groupby_agg(frame, keys, column_name, agg_type) ==
  IF TinyGroupBy_new_error(frame, keys) # ""
  THEN {Err(TinyGroupBy_new_error(frame, keys))}
  ELSE {aggregate_column(frame, keys, column_name, agg_type, order)
          : order \in Orderings(DOMAIN TinyGroupBy_groups(frame, keys))}
       \cup (IF agg_overflows(frame, keys, column_name, agg_type)
             THEN {Err("PanicException")} ELSE {})

\* frame.groupby(keys).sum(frame, column)
groupby_sum(frame, keys, column_name) == groupby_agg(frame, keys, column_name, "sum")

\* ------------------------------------------------------------------------
\* parallel/mod.rs: parallel_groupby_sum
\* ------------------------------------------------------------------------
\* The key of row i: filter_map leaves out a key column the frame does not
\* have and a null cell.
group_key(frame, group_keys, i) ==
  LET vals == [k \in 1..Len(group_keys) |->
                 IF group_keys[k] \in ColNames(frame)
                 THEN Parallel_get_value_at_index(frame.columns[group_keys[k]], i)
                 ELSE None]
  IN Concat([k \in 1..Len(group_keys) |->
               IF IsSome(vals[k]) THEN <<Unwrap(vals[k])>> ELSE <<>>])

\* The groups map of parallel_groupby_sum: key -> the set of its rows.
Parallel_groups(frame, group_keys) ==
  LET keyset == {group_key(frame, group_keys, i) : i \in 1..frame.length}
  IN [key \in keyset |->
        SortedSeq({i \in 1..frame.length : group_key(frame, group_keys, i) = key})]

\* ParallelOps::calculate_sum_for_indices: 0.0 for the unsupported types.
calculate_sum_for_indices(col, idxs) ==
  IF col.type \in {"Int", "Float", "OptInt", "OptFloat"}
  THEN SumSeq([n \in 1..Len(idxs) |->
                 IF IsSome(col.data[idxs[n]]) THEN Unwrap(col.data[idxs[n]]) ELSE 0])
  ELSE 0

\* ParallelOps::create_result_frame; results is a sequence of <<key, sum>>.
\* Key column i takes key.get(i) of every result that has a component i, so
\* it is shorter than the frame when some key lacks that component.  The
\* value column is inserted last and replaces a key column of its name.
create_result_frame(results, group_keys, value_column) ==
  IF Len(results) = 0 THEN Ok(TinyFrame_new)
  ELSE LET names == Range(group_keys) \cup {value_column}
           key_pos(c) == CHOOSE k \in 1..Len(group_keys) :
                           group_keys[k] = c
                           /\ \A j \in 1..Len(group_keys) : group_keys[j] = c => j <= k
           cols == [c \in names |->
                      IF c = value_column
                      THEN TinyColumn("Float",
                             [n \in 1..Len(results) |-> Some(results[n][2])])
                      ELSE TinyColumn("Mixed",
                             Concat([n \in 1..Len(results) |->
                                       IF key_pos(c) <= Len(results[n][1])
                                       THEN <<Some(results[n][1][key_pos(c)])>>
                                       ELSE <<>>]))]
       IN Ok(TinyFrame(cols, Len(results)))

\* ParallelOps::parallel_groupby_sum: the set of frames it can return, one
\* per iteration order of the groups map.
parallel_groupby_sum(frame, group_keys, value_column) ==
  IF Len(group_keys) = 0 THEN {Err("ValueError")}
  ELSE IF value_column \notin ColNames(frame) THEN {Err("KeyError")}
  ELSE LET groups == Parallel_groups(frame, group_keys)
       IN {create_result_frame(
             [n \in 1..Len(order) |->
                <<order[n],
                  calculate_sum_for_indices(frame.columns[value_column], groups[order[n]])>>],
             group_keys, value_column)
             : order \in Orderings(DOMAIN groups)}

\* ------------------------------------------------------------------------
\* chunked/mod.rs: chunked_groupby_sum
\* ------------------------------------------------------------------------
\* ChunkedProcessor::create_chunk / chunk_column: rows start+1..end_ of every
\* column (start counts from 0 as in the source).
create_chunk(frame, start, end_) ==
  TinyFrame([c \in ColNames(frame) |->
               TinyColumn(frame.columns[c].type,
                          SubSeq(frame.columns[c].data, start + 1, end_))],
            end_ - start)

\* ChunkedProcessor::get_value_at_index
Chunked_get_value_at_index(col, index) ==
  IF index > Len(col.data) THEN None
  ELSE IF IsNone(col.data[index]) THEN None
  ELSE IF col.type \in {"Mixed", "OptMixed"} THEN col.data[index]
  ELSE Some(ValueEnum(KindOf(col.type), Unwrap(col.data[index])))

\* merge_groupby_results, the key read back from row i of a chunk result.
merged_key(chunk, group_keys, i) ==
  LET vals == [k \in 1..Len(group_keys) |->
                 IF group_keys[k] \in ColNames(chunk)
                 THEN Chunked_get_value_at_index(chunk.columns[group_keys[k]], i)
                 ELSE None]
  IN Concat([k \in 1..Len(group_keys) |->
               IF IsSome(vals[k]) THEN <<Unwrap(vals[k])>> ELSE <<>>])

\* merge_groupby_results, the rows of all chunk results as <<key, value>>;
\* a chunk result whose value column is not Float contributes nothing.
merged_rows(chunk_results, group_keys, value_column) ==
  Concat([n \in 1..Len(chunk_results) |->
            LET chunk == chunk_results[n]
            IN IF value_column \in ColNames(chunk)
                  /\ chunk.columns[value_column].type = "Float"
               THEN [i \in 1..chunk.length |->
                       <<merged_key(chunk, group_keys, i),
                         Unwrap(chunk.columns[value_column].data[i])>>]
               ELSE <<>>])

\* merge_groupby_results: the aggregated map key -> total.
aggregated(chunk_results, group_keys, value_column) ==
  LET rows == merged_rows(chunk_results, group_keys, value_column)
      keyset == {rows[n][1] : n \in 1..Len(rows)}
  IN [key \in keyset |->
        SumSeq([n \in 1..Len(rows) |-> IF rows[n][1] = key THEN rows[n][2] ELSE 0])]

\* ChunkedProcessor::merge_groupby_results: the set of frames it can return,
\* one per iteration order of the aggregated map.  Its columns are built as
\* in create_result_frame, but an empty map still yields the named columns.
merge_groupby_results(chunk_results, group_keys, value_column) ==
  IF Len(chunk_results) = 0 THEN {Ok(TinyFrame_new)}
  ELSE LET agg == aggregated(chunk_results, group_keys, value_column)
           names == Range(group_keys) \cup {value_column}
           key_pos(c) == CHOOSE k \in 1..Len(group_keys) :
                           group_keys[k] = c
                           /\ \A j \in 1..Len(group_keys) : group_keys[j] = c => j <= k
       IN {Ok(TinyFrame(
                [c \in names |->
                   IF c = value_column
                   THEN TinyColumn("Float", [n \in 1..Len(order) |-> Some(agg[order[n]])])
                   ELSE TinyColumn("Mixed",
                          Concat([n \in 1..Len(order) |->
                                    IF key_pos(c) <= Len(order[n])
                                    THEN <<Some(order[n][key_pos(c)])>>
                                    ELSE <<>>]))],
                Len(order)))
             : order \in Orderings(DOMAIN agg)}

\* The sequences whose n-th member is drawn from the n-th set.
RECURSIVE SeqProduct(_)
SeqProduct(sets) ==
  IF Len(sets) = 0 THEN {<<>>}
  ELSE {<<x>> \o rest : x \in Head(sets), rest \in SeqProduct(Tail(sets))}

\* std::cmp::min
Min(a, b) == IF a < b THEN a ELSE b

\* ChunkedProcessor::chunked_groupby_sum: the set of frames it can return.
\* A table not longer than the chunk size goes to parallel_groupby_sum
\* whole; otherwise each chunk is grouped on its own and the chunk results
\* are merged.  A chunk size of 0 divides by zero (a panic).
chunked_groupby_sum(frame, chunk_size, group_keys, value_column) ==
  IF frame.length <= chunk_size
  THEN parallel_groupby_sum(frame, group_keys, value_column)
  ELSE IF chunk_size = 0 THEN {Err("PanicException")}
  ELSE LET num_chunks == (frame.length + chunk_size - 1) \div chunk_size
           chunks == [n \in 1..num_chunks |->
                        create_chunk(frame, (n - 1) * chunk_size,
                                     Min((n - 1) * chunk_size + chunk_size, frame.length))]
           per_chunk == [n \in 1..num_chunks |->
                           parallel_groupby_sum(chunks[n], group_keys, value_column)]
       IN UNION {IF \E n \in 1..num_chunks : ~rs[n].ok
                 THEN {rs[CHOOSE n \in 1..num_chunks :
                            ~rs[n].ok /\ \A j \in 1..(n - 1) : rs[j].ok]}
                 ELSE merge_groupby_results([n \in 1..num_chunks |-> rs[n].frame],
                                            group_keys, value_column)
                   : rs \in SeqProduct(per_chunk)}

\* ------------------------------------------------------------------------
\* The group-by specification: a table with two nullable string key columns
\* "k1", "k2" and an integer target column "v", a key list and a chunk size
\* are drawn; then the single-threaded, the parallel or the chunked group-by
\* sum is called.
\* ------------------------------------------------------------------------
GroupStr == 1..NumGroupStr

GroupVals == 1..NumGroupVals

GroupKeyCells == {None} \cup {Some(x) : x \in GroupStr}

GroupFrames ==
  {TinyFrame([c \in {"k1", "k2", "v"} |->
                CASE c = "k1" -> TinyColumn("OptStr", t[1])
                  [] c = "k2" -> TinyColumn("OptStr", t[2])
                  [] OTHER -> TinyColumn("Int", t[3])],
             Len(t[1]))
     : t \in UNION {[1..n -> GroupKeyCells] \X [1..n -> GroupKeyCells]
                      \X [1..n -> {Some(x) : x \in GroupVals}]
                      : n \in 0..MaxGroupRows}}

InitGroup ==
  /\ self \in GroupFrames
  /\ other = TinyFrame_new
  /\ params \in [group_keys : {<<"k1">>, <<"k1", "k2">>},
                 value_column : {"v"},
                 chunk_size : 1..MaxGroupRows]
  /\ params.chunk_size <= IF self.length = 0 THEN 1 ELSE self.length
  /\ op = "init"
  /\ result = NoResult
  /\ indices = <<>>

GroupBySum ==
  /\ op = "init"
  /\ op' = "groupby_sum"
  /\ result' \in groupby_sum(self, params.group_keys, params.value_column)
  /\ UNCHANGED <<self, other, params, indices>>

ParallelGroupBySum ==
  /\ op = "init"
  /\ op' = "parallel_groupby_sum"
  /\ result' \in parallel_groupby_sum(self, params.group_keys, params.value_column)
  /\ UNCHANGED <<self, other, params, indices>>

ChunkedGroupBySum ==
  /\ op = "init"
  /\ op' = "chunked_groupby_sum"
  /\ result' \in chunked_groupby_sum(self, params.chunk_size, params.group_keys,
                                     params.value_column)
  /\ UNCHANGED <<self, other, params, indices>>

NextGroup == GroupBySum \/ ParallelGroupBySum \/ ChunkedGroupBySum

SpecGroup == InitGroup /\ [][NextGroup]_vars

\* ------------------------------------------------------------------------
\* Group-by claims
\* ------------------------------------------------------------------------
\* The (key tuple, sum) pairs of a TinyGroupBy sum frame: the key cells of
\* each row with the row's aggregate.
GroupBySumPairs(frame, keys, agg_name) ==
  {<<[k \in 1..Len(keys) |-> frame.columns[keys[k]].data[n]],
     Unwrap(frame.columns[agg_name].data[n])>> : n \in 1..frame.length}

\* The (key tuple, sum) pairs of a parallel or chunked group-by sum frame,
\* read row by row; a key column that has no cell for the row reads as null.
ParallelSumPairs(frame, keys, value_column) ==
  {<<[k \in 1..Len(keys) |->
        IF n <= Len(frame.columns[keys[k]].data)
        THEN Some(Unwrap(frame.columns[keys[k]].data[n])[2])
        ELSE None],
     Unwrap(frame.columns[value_column].data[n])>> : n \in 1..frame.length}

\* The pairs of the single-threaded group-by sum of the input table.
SingleThreadedPairs ==
  LET single == CHOOSE r \in groupby_sum(self, params.group_keys, params.value_column) : r.ok
  IN GroupBySumPairs(single.frame, params.group_keys, params.value_column \o "_sum")

\* C7: parallel_groupby_sum yields the same set of (key tuple, sum) pairs
\* as the single-threaded TinyGroupBy sum; rows with a null key value form
\* a group keyed by null in both.
C7_ParallelGroupBySamePairs ==
  op = "parallel_groupby_sum" =>
    /\ result.ok
    /\ ParallelSumPairs(result.frame, params.group_keys, params.value_column)
         = SingleThreadedPairs

\* C8: for every chunk size not above the table length, chunked_groupby_sum
\* returns the same keys with the same total per key as the non-chunked
\* group-by sum over the whole table.
C8_ChunkedGroupBySameTotals ==
  (op = "chunked_groupby_sum" /\ params.chunk_size <= self.length) =>
    /\ result.ok
    /\ ParallelSumPairs(result.frame, params.group_keys, params.value_column)
         = SingleThreadedPairs

\* C11: in the output of sort_values every row whose cell in the leading
\* key column is null stands after every row whose cell there is not null,
\* whether ascending is true or false.
C11_NullsSortLast ==
  (op = "sort_values" /\ result.ok) =>
    LET col == result.frame.columns[params.by[1]]
    IN \A p, q \in 1..result.frame.length :
         p < q => ~(IsNone(col.data[p]) /\ IsSome(col.data[q]))

\* ------------------------------------------------------------------------
\* The mutating entry points: drop_columns (frame/mod.rs), cast_column
\* (frame/cast.rs) and edit_column (frame/edit.rs).
\*
\* The frames of this part carry the side table py_objects (opaque handle ->
\* object; an object is written as its handle).  Casts format and parse
\* strings, so here a string payload is the string itself, a bool is still
\* 0/1 and a float x.0 is x.
\* ------------------------------------------------------------------------
\* struct TinyFrame with its side table.
TinyFrameObj(columns, length, py_objects) ==
  [columns |-> columns, length |-> length, py_objects |-> py_objects]

\* PyResult<()>
OkUnit == Ok(TinyFrame_new)

\* HashMap::remove(name) on the columns.
RemoveColumn(columns, name) == [c \in (DOMAIN columns) \ {name} |-> columns[c]]

\* TinyFrame::drop_columns: the loop over columns_to_drop.  Each name is
\* looked up and removed in turn; the first name that is not (or no longer)
\* a column ends the call with KeyError, the earlier removals staying done.
\* The value is <<columns after the call, error or "">>.
RECURSIVE drop_columns_loop(_, _)
drop_columns_loop(columns, columns_to_drop) ==
  IF Len(columns_to_drop) = 0 THEN <<columns, "">>
  ELSE IF Head(columns_to_drop) \notin DOMAIN columns THEN <<columns, "KeyError">>
  ELSE drop_columns_loop(RemoveColumn(columns, Head(columns_to_drop)),
                         Tail(columns_to_drop))

\* TinyFrame::drop_columns: <<frame after the call, PyResult<()>>>.
drop_columns(frame, columns_to_drop) ==
  LET r == drop_columns_loop(frame.columns, columns_to_drop)
  IN <<[frame EXCEPT !.columns = r[1]],
       IF r[2] = "" THEN OkUnit ELSE Err(r[2])>>

\* ------------------------------------------------------------------------
\* The specification of the mutating entry points: a table with a column
\* "a" of any column type and an integer column "b" is drawn; then one
\* mutating call is made on it.
\* ------------------------------------------------------------------------
MutInts == 0..MaxMutInt

MutStrs == {"", "1", "x"}

ObjIds == {7, 8}

MutMixed == {ValueEnum("Int", 1), ValueEnum("Str", "x")}

MutTypes ==
  {"Int", "Float", "Bool", "Str", "OptInt", "OptFloat", "OptBool", "OptStr",
   "Mixed", "OptMixed", "PyObject", "OptPyObject"}

\* The values a column type holds, and the cells (None for the nullable).
MutValues(type) ==
  CASE type \in {"Int", "OptInt", "Float", "OptFloat"} -> MutInts
    [] type \in {"Bool", "OptBool"} -> BoolVals
    [] type \in {"Str", "OptStr"} -> MutStrs
    [] type \in {"Mixed", "OptMixed"} -> MutMixed
    [] OTHER -> ObjIds

MutNullable == {"OptInt", "OptFloat", "OptBool", "OptStr", "OptMixed", "OptPyObject"}

MutCells(type) ==
  {Some(x) : x \in MutValues(type)} \cup (IF type \in MutNullable THEN {None} ELSE {})

\* The handles a column holds.
HandlesOf(col) ==
  IF col.type \in {"PyObject", "OptPyObject"}
  THEN {Unwrap(col.data[i]) : i \in {j \in 1..Len(col.data) : IsSome(col.data[j])}}
  ELSE {}

MutFrames ==
  {TinyFrameObj([c \in {"a", "b"} |->
                   IF c = "a" THEN TinyColumn(t[1], t[2]) ELSE TinyColumn("Int", t[3])],
                Len(t[2]),
                [id \in HandlesOf(TinyColumn(t[1], t[2])) |-> id])
     : t \in UNION {{type} \X [1..n -> MutCells(type)] \X [1..n -> MutCells("Int")]
                      : <<type, n>> \in MutTypes \X (0..MaxMutRows)}}

\* ------------------------------------------------------------------------
\* frame/convert.rs: from_dicts and to_dicts
\*
\* A Python value is <<kind, payload>> with kind "None", "Bool", "Int",
\* "Float", "Str" or "PyObject" (any other object; its payload is its
\* address).  A record is a function from its keys to Python values.
\* ------------------------------------------------------------------------
PyNone == <<"None", 0>>

\* row.get_item(col): None for a missing key and for a Python None.
get_item(row, col) ==
  IF col \in DOMAIN row /\ row[col] # PyNone THEN Some(row[col]) ELSE None

\* val.extract() of the value classified: a Python int outside i64 fails.
extract_fails(val) == val[1] = "Int" /\ (val[2] >= I64Limit \/ val[2] < -I64Limit)

\* The ValueEnum pushed for a non-null value: its kind is the first of
\* Bool, Int, Float, Str it is an instance of, PyObject otherwise.
to_value_enum(val) ==
  IF val[1] = "PyObject" THEN ValueEnum("PyObjectId", val[2])
  ELSE ValueEnum(val[1], val[2])

\* value_enum_vals of a column: one Option<ValueEnum> per record.
value_enum_vals(records, col) ==
  [i \in 1..Len(records) |->
     IF IsSome(get_item(records[i], col))
     THEN Some(to_value_enum(Unwrap(get_item(records[i], col))))
     ELSE None]

\* types_present of a column ("PyObject" for the PyObjectId kind).
types_present(vals) ==
  {IF Unwrap(vals[i])[1] = "PyObjectId" THEN "PyObject" ELSE Unwrap(vals[i])[1]
     : i \in {j \in 1..Len(vals) : IsSome(vals[j])}}

\* A mutation of final_col_type: the null flag is not looked at.
final_col_type_ignoring_none(types, has_none) ==
  IF Cardinality(types) = 1 THEN CHOOSE t \in types : TRUE ELSE "Mixed"

\* The column type from_dicts_impl chooses from the kinds seen and the null
\* flag.
final_col_type(types, has_none) ==
  IF Cardinality(types) = 1 /\ ~has_none THEN CHOOSE t \in types : TRUE
  ELSE IF Cardinality(types) = 1 /\ has_none
       THEN "Opt" \o (CHOOSE t \in types : TRUE)
  ELSE IF has_none THEN "OptMixed" ELSE "Mixed"

\* final_col: typed columns hold the payloads, mixed columns the ValueEnums.
final_col(vals) ==
  LET has_none == \E i \in 1..Len(vals) : IsNone(vals[i])
      type == final_col_type(types_present(vals), has_none)
  IN TinyColumn(type,
       IF type \in {"Mixed", "OptMixed"} THEN vals
       ELSE [i \in 1..Len(vals) |->
               IF IsSome(vals[i]) THEN Some(Unwrap(vals[i])[2]) ELSE None])

\* from_dicts_impl: the columns are the keys of the first record.
from_dicts(records) ==
  IF Len(records) = 0 THEN Err("ValueError")
  ELSE LET col_names == DOMAIN records[1]
       IN IF \E c \in col_names, i \in 1..Len(records) :
               IsSome(get_item(records[i], c))
               /\ extract_fails(Unwrap(get_item(records[i], c)))
          THEN Err("OverflowError")
          ELSE Ok(TinyFrameObj(
                 [c \in col_names |-> final_col(value_enum_vals(records, c))],
                 Len(records),
                 [id \in {records[i][c][2] :
                            <<i, c>> \in {x \in (1..Len(records)) \X col_names :
                                            /\ x[2] \in DOMAIN records[x[1]]
                                            /\ records[x[1]][x[2]][1] = "PyObject"}}
                    |-> id]))

\* to_dicts_impl, one cell: the Python value of row i of a column.
to_py(frame, col, i) ==
  LET cell == col.data[i]
      resolve(id) == IF id \in DOMAIN frame.py_objects
                     THEN <<"PyObject", frame.py_objects[id]>> ELSE PyNone
  IN IF IsNone(cell) THEN PyNone
     ELSE IF col.type \in {"PyObject", "OptPyObject"} THEN resolve(Unwrap(cell))
     ELSE IF col.type \in {"Mixed", "OptMixed"}
          THEN (IF Unwrap(cell)[1] = "PyObjectId" THEN resolve(Unwrap(cell)[2])
                ELSE <<Unwrap(cell)[1], Unwrap(cell)[2]>>)
     ELSE <<KindOf(col.type), Unwrap(cell)>>

\* to_dicts_impl: one record per row, one key per column.
to_dicts(frame) ==
  [i \in 1..frame.length |->
     [c \in ColNames(frame) |-> to_py(frame, frame.columns[c], i)]]

\* PyResult<Vec<PyObject>>
OkRecords(records) ==
  [ok |-> TRUE, err |-> "", frame |-> TinyFrame_new, records |-> records]

\* ------------------------------------------------------------------------
\* The ingestion specification: a sequence of records over the keys "a" and
\* "b" is drawn; from_dicts builds a table from it and to_dicts turns the
\* table back into records.
\* ------------------------------------------------------------------------
PyValuesA ==
  {PyNone, <<"Bool", 1>>, <<"Int", 1>>, <<"Int", I64Limit>>, <<"Float", 1>>,
   <<"Str", 1>>, <<"PyObject", 7>>}

PyValuesB == {<<"Int", 2>>, <<"Str", 2>>}

\* The records: every key may be missing.
IngestRecords ==
  {[k \in ks |-> IF k = "a" THEN va ELSE vb]
     : <<ks, va, vb>> \in (SUBSET {"a", "b"}) \X PyValuesA \X PyValuesB}

InitIngest ==
  /\ self = TinyFrame_new
  /\ other = TinyFrame_new
  /\ params \in [records : UNION {[1..n -> IngestRecords] : n \in 0..MaxRecords}]
  /\ op = "init"
  /\ result = NoResult
  /\ indices = <<>>

FromDicts ==
  /\ op = "init"
  /\ op' = "from_dicts"
  /\ result' = from_dicts(params.records)
  /\ self' = result'.frame
  /\ UNCHANGED <<other, params, indices>>

ToDicts ==
  /\ op = "from_dicts"
  /\ result.ok
  /\ op' = "to_dicts"
  /\ result' = OkRecords(to_dicts(self))
  /\ UNCHANGED <<self, other, params, indices>>

NextIngest == FromDicts \/ ToDicts

SpecIngest == InitIngest /\ [][NextIngest]_vars

\* ------------------------------------------------------------------------
\* Ingestion claims
\* ------------------------------------------------------------------------
\* The kinds of the non-null values the records hold under a key.
KindsSeen(records, c) ==
  {records[i][c][1] : i \in {j \in 1..Len(records) :
                               c \in DOMAIN records[j] /\ records[j][c] # PyNone}}

\* Some record holds null under the key or does not have the key.
NullSeen(records, c) ==
  \E i \in 1..Len(records) : c \notin DOMAIN records[i] \/ records[i][c] = PyNone

\* The nullable column variant of a kind.
NullableVariant(kind) ==
  CASE kind = "Int" -> "OptInt"
    [] kind = "Float" -> "OptFloat"
    [] kind = "Bool" -> "OptBool"
    [] kind = "Str" -> "OptStr"
    [] OTHER -> "OptPyObject"

\* C13: ingestion chooses each column's representation from the kinds and
\* the nulls of that column: one kind and no null gives the typed column,
\* one kind and some null the nullable typed column, more than one kind a
\* mixed column (nullable mixed if a null was seen); every column has one
\* slot per record.
C13_IngestionInference ==
  (op = "from_dicts" /\ result.ok) =>
    \A c \in ColNames(self) :
      LET kinds == KindsSeen(params.records, c)
          nulls == NullSeen(params.records, c)
          type == self.columns[c].type
      IN /\ Len(self.columns[c].data) = Len(params.records)
         /\ (Cardinality(kinds) = 1 /\ ~nulls) => type \in kinds
         /\ (Cardinality(kinds) = 1 /\ nulls)
              => type = NullableVariant(CHOOSE k \in kinds : TRUE)
         /\ (Cardinality(kinds) > 1 /\ ~nulls) => type = "Mixed"
         /\ (Cardinality(kinds) > 1 /\ nulls) => type = "OptMixed"

\* Witness of C13: from_dicts built a nullable mixed column from more than
\* one kind and a null, next to a nullable typed column of one kind.
C13_Witness ==
  /\ op = "from_dicts" /\ result.ok
  /\ ColNames(self) = {"a", "b"}
  /\ Cardinality(KindsSeen(params.records, "a")) > 1
  /\ NullSeen(params.records, "a")
  /\ self.columns["a"].type = "OptMixed"
  /\ Cardinality(KindsSeen(params.records, "b")) = 1
  /\ self.columns["b"].type \in {"OptInt", "OptStr"}

\* The keys that occur in some record.
AllKeys(records) == UNION {DOMAIN records[i] : i \in 1..Len(records)}

\* Every column of the records holds values of a single native kind (int
\* within the integer width, float, string or bool), nulls aside.
UniformNative(records) ==
  \A c \in AllKeys(records) :
    /\ Cardinality(KindsSeen(records, c)) <= 1
    /\ KindsSeen(records, c) \subseteq {"Int", "Float", "Str", "Bool"}
    /\ \A i \in 1..Len(records) :
         c \in DOMAIN records[i] => ~extract_fails(records[i][c])

\* C14: round trip.  For a non-empty record sequence R whose columns each
\* hold a single native kind, to_dicts(from_dicts(R)) has as many rows as R
\* and row i maps every key of record i to the value record i holds.
C14_RoundTrip ==
  (op = "to_dicts" /\ Len(params.records) > 0 /\ UniformNative(params.records)) =>
    /\ Len(result.records) = Len(params.records)
    /\ \A i \in 1..Len(params.records) :
         \A k \in DOMAIN params.records[i] :
           /\ k \in DOMAIN result.records[i]
           /\ result.records[i][k] = params.records[i][k]

\* ------------------------------------------------------------------------
\* The aggregate specification: a table with a nullable string key column
\* "k" and a numeric target column "v" is drawn; then one aggregate of
\* frame.groupby(["k"]) is taken over "v".
\* ------------------------------------------------------------------------
AggKeyCells == {None} \cup {Some(x) : x \in 1..NumAggStr}

\* Target values: a small one and the largest the integer type holds.
AggVals == {1, F64Exact - 1, I64Limit - 1}

AggTargetTypes == {"Int", "OptInt", "OptFloat"}

AggTargetCells(type) ==
  {Some(x) : x \in AggVals} \cup (IF type = "Int" THEN {} ELSE {None})

AggFrames ==
  {TinyFrame([c \in {"k", "v"} |->
                IF c = "k" THEN TinyColumn("OptStr", t[2]) ELSE TinyColumn(t[1], t[3])],
             Len(t[2]))
     : t \in UNION {{type} \X [1..n -> AggKeyCells] \X [1..n -> AggTargetCells(type)]
                      : <<type, n>> \in AggTargetTypes \X (0..MaxAggRows)}}

InitAgg ==
  /\ self \in AggFrames
  /\ other = TinyFrame_new
  /\ params = [keys |-> <<"k">>, column |-> "v"]
  /\ op = "init"
  /\ result = NoResult
  /\ indices = <<>>

AggSum ==
  /\ op = "init"
  /\ op' = "sum"
  /\ result' \in groupby_agg(self, params.keys, params.column, "sum")
  /\ UNCHANGED <<self, other, params, indices>>

AggMean ==
  /\ op = "init"
  /\ op' = "mean"
  /\ result' \in groupby_agg(self, params.keys, params.column, "mean")
  /\ UNCHANGED <<self, other, params, indices>>

AggMin ==
  /\ op = "init"
  /\ op' = "min"
  /\ result' \in groupby_agg(self, params.keys, params.column, "min")
  /\ UNCHANGED <<self, other, params, indices>>

AggMax ==
  /\ op = "init"
  /\ op' = "max"
  /\ result' \in groupby_agg(self, params.keys, params.column, "max")
  /\ UNCHANGED <<self, other, params, indices>>

AggStd ==
  /\ op = "init"
  /\ op' = "std"
  /\ result' \in groupby_agg(self, params.keys, params.column, "std")
  /\ UNCHANGED <<self, other, params, indices>>

AggVar ==
  /\ op = "init"
  /\ op' = "var"
  /\ result' \in groupby_agg(self, params.keys, params.column, "var")
  /\ UNCHANGED <<self, other, params, indices>>

AggMedian ==
  /\ op = "init"
  /\ op' = "median"
  /\ result' \in groupby_agg(self, params.keys, params.column, "median")
  /\ UNCHANGED <<self, other, params, indices>>

AggFirst ==
  /\ op = "init"
  /\ op' = "first"
  /\ result' \in groupby_agg(self, params.keys, params.column, "first")
  /\ UNCHANGED <<self, other, params, indices>>

AggLast ==
  /\ op = "init"
  /\ op' = "last"
  /\ result' \in groupby_agg(self, params.keys, params.column, "last")
  /\ UNCHANGED <<self, other, params, indices>>

NextAgg ==
  \/ AggSum \/ AggMean \/ AggMin \/ AggMax \/ AggStd
  \/ AggVar \/ AggMedian \/ AggFirst \/ AggLast

SpecAgg == InitAgg /\ [][NextAgg]_vars

\* ------------------------------------------------------------------------
\* Aggregate claims
\* ------------------------------------------------------------------------
\* The groups of the input table and its target column.
AggGroups == TinyGroupBy_groups(self, params.keys)

AggTarget == self.columns[params.column]

\* The aggregate column of the result.
AggColumn == result.frame.columns[params.column \o "_" \o op]

\* Every row of the input is in exactly one group and the result has one
\* row per group.
RowsPartitioned ==
  /\ \A i \in 1..self.length :
       Cardinality({key \in DOMAIN AggGroups : i \in Range(AggGroups[key])}) = 1
  /\ result.frame.length = Cardinality(DOMAIN AggGroups)

\* The sum of the per-group sums equals the sum of the non-null target values.
SumsConserved ==
  SumSeq([n \in 1..result.frame.length |-> Unwrap(AggColumn.data[n])])
    = SumSeq(non_null_values(AggTarget, Upto(self.length)))

\* No group's i64 sum of its non-null target values overflows, and every
\* group's sum is within the magnitude up to which f64 holds every integer.
NoGroupOverflow ==
  \A key \in DOMAIN AggGroups :
    LET values == non_null_values(AggTarget, AggGroups[key])
    IN /\ ~i64_sum_overflows(values)
       /\ SumSeq(values) <= F64Exact
       /\ SumSeq(values) >= -F64Exact

\* C15 as stated: for a sum over an int or nullable-int target column every
\* row belongs to exactly one group and the per-group sums add up to the
\* sum of all non-null target values.
C15_SumConservation ==
  (op = "sum" /\ AggTarget.type \in {"Int", "OptInt"}) =>
    (result.ok /\ RowsPartitioned /\ SumsConserved)

\* C15 amended: the same, for tables in which no group's i64 sum overflows
\* and every group's sum is exactly representable as an f64.
C15_SumConservationInRange ==
  (op = "sum" /\ AggTarget.type \in {"Int", "OptInt"} /\ NoGroupOverflow) =>
    (result.ok /\ RowsPartitioned /\ SumsConserved)

\* Witness of C15: a sum over a nullable-int target with a null cell, two
\* groups, one of them of more than one row, and no overflow.
C15_Witness ==
  /\ op = "sum" /\ result.ok
  /\ AggTarget.type = "OptInt"
  /\ NoGroupOverflow
  /\ \E i \in 1..self.length : IsNone(AggTarget.data[i])
  /\ Cardinality(DOMAIN AggGroups) = 2
  /\ \E key \in DOMAIN AggGroups :
       Len(non_null_values(AggTarget, AggGroups[key])) > 1

\* C16: for every aggregate over a nullable target column, a group all of
\* whose target values are null has a null in the aggregate column.
C16_AllNullGroupYieldsNull ==
  (op \in AggTypes /\ result.ok /\ AggTarget.type \in {"OptInt", "OptFloat"}) =>
    \A n \in 1..result.frame.length :
      LET key == [k \in 1..Len(params.keys) |->
                    result.frame.columns[params.keys[k]].data[n]]
      IN Len(non_null_values(AggTarget, AggGroups[key])) = 0
           => IsNone(AggColumn.data[n])

\* ------------------------------------------------------------------------
\* frame/edit.rs
\* ------------------------------------------------------------------------
\* func.call1(py, (input_obj,)): the outcome of the Python callable on one
\* value, [raised, value].
call1(func, x) ==
  CASE func = "identity" -> [raised |-> FALSE, value |-> x]
    [] func = "to_none" -> [raised |-> FALSE, value |-> PyNone]
    [] func = "is_none" ->
         [raised |-> FALSE, value |-> <<"Bool", IF x[1] = "None" THEN 1 ELSE 0>>]
    [] func = "to_object" -> [raised |-> FALSE, value |-> <<"PyObject", 8>>]
    [] func = "none_to_object" ->
         [raised |-> FALSE, value |-> IF x[1] = "None" THEN <<"PyObject", 8>> ELSE x]
    [] OTHER ->
         [raised |-> x[1] = "None", value |-> <<"PyObject", 8>>]

\* input_obj of row i: the Python value of the cell.  The handle of an
\* opaque cell is looked up with unwrap(); every handle of a column is in
\* the side table.
input_obj(frame, col, i) == to_py(frame, col, i)

\* pyobject_to_option_valueenum: None for a Python None, else the ValueEnum
\* of convert_pyobject_to_valueenum.
pyobject_to_option_valueenum(py_value) ==
  IF py_value[1] = "None" THEN None ELSE Some(to_value_enum(py_value))

\* edit_column_logic, the loop: the outcomes of func row by row, the first
\* row at which the call or the conversion fails (0 if none), and the
\* handles put into the side table by the rows before it.
edit_outcomes(frame, col, func) ==
  [i \in 1..Len(col.data) |-> call1(func, input_obj(frame, col, i))]

edit_row_fails(outcome) == outcome.raised \/ extract_fails(outcome.value)

edit_first_failure(outcomes) ==
  IF \E i \in 1..Len(outcomes) : edit_row_fails(outcomes[i])
  THEN CHOOSE i \in 1..Len(outcomes) :
         /\ edit_row_fails(outcomes[i])
         /\ \A j \in 1..(i - 1) : ~edit_row_fails(outcomes[j])
  ELSE 0

edit_inserted(outcomes) ==
  LET stop == edit_first_failure(outcomes)
      done == IF stop = 0 THEN Len(outcomes) ELSE stop - 1
  IN {outcomes[i].value[2] :
        i \in {j \in 1..done : outcomes[j].value[1] = "PyObject"}}

\* An insert that first clears the side table.
insert_objects_clearing(py_objects, ids) == [id \in ids |-> id]

\* HashMap::insert of the handles into the side table.
insert_objects(py_objects, ids) ==
  [id \in (DOMAIN py_objects) \cup ids |-> id]

\* edit_column_logic, the choice of the final column: opaque (nullable with
\* a None) as soon as one new value is a handle, which panics when another
\* is not; mixed (nullable mixed with a None) otherwise.
edit_final_col(new_values) ==
  LET has_none == \E i \in 1..Len(new_values) : IsNone(new_values[i])
      has_pyobjects == \E i \in 1..Len(new_values) :
                         /\ IsSome(new_values[i])
                         /\ Unwrap(new_values[i])[1] = "PyObjectId"
  IN IF has_pyobjects
     THEN IF \E i \in 1..Len(new_values) :
               /\ IsSome(new_values[i])
               /\ Unwrap(new_values[i])[1] # "PyObjectId"
          THEN [panics |-> TRUE, col |-> TinyColumn("Mixed", <<>>)]
          ELSE [panics |-> FALSE,
                col |-> TinyColumn(IF has_none THEN "OptPyObject" ELSE "PyObject",
                          [i \in 1..Len(new_values) |->
                             IF IsSome(new_values[i])
                             THEN Some(Unwrap(new_values[i])[2]) ELSE None])]
     ELSE [panics |-> FALSE,
           col |-> TinyColumn(IF has_none THEN "OptMixed" ELSE "Mixed", new_values)]

\* edit_column_impl: <<frame after the call, PyResult<()>>>.
edit_column(frame, column_name, func) ==
  IF column_name \notin ColNames(frame) THEN <<frame, Err("KeyError")>>
  ELSE LET col == frame.columns[column_name]
           outcomes == edit_outcomes(frame, col, func)
           stop == edit_first_failure(outcomes)
           objects == insert_objects(frame.py_objects, edit_inserted(outcomes))
           new_values == [i \in 1..Len(outcomes) |->
                            pyobject_to_option_valueenum(outcomes[i].value)]
           final == edit_final_col(new_values)
       IN IF stop # 0
          THEN <<[frame EXCEPT !.py_objects = objects],
                 Err(IF outcomes[stop].raised THEN "Exception" ELSE "OverflowError")>>
          ELSE IF final.panics
          THEN <<[frame EXCEPT !.py_objects = objects], Err("PanicException")>>
          ELSE <<[frame EXCEPT !.py_objects = objects,
                               !.columns[column_name] = final.col], OkUnit>>

\* ------------------------------------------------------------------------
\* frame/cast.rs
\* ------------------------------------------------------------------------
Digits == <<"0", "1", "2", "3", "4", "5", "6", "7", "8", "9">>

\* i64::to_string, and f64::to_string of an integral float.
RECURSIVE to_string(_)
to_string(v) ==
  IF v < 0 THEN "-" \o to_string(-v)
  ELSE IF v < 10 THEN Digits[v + 1]
  ELSE to_string(v \div 10) \o Digits[(v % 10) + 1]

\* bool::to_string
bool_to_string(b) == IF b = 1 THEN "true" ELSE "false"

\* str::parse::<i64>() (and parse::<f64>() on the same strings): Some(v)
\* for the decimal form of an integer v, None otherwise.
parse(s) ==
  IF \E v \in (-I64Limit)..(I64Limit - 1) : to_string(v) = s
  THEN Some(CHOOSE v \in (-I64Limit)..(I64Limit - 1) : to_string(v) = s)
  ELSE None

\* The conversion of one non-null value of a column of kind `kind` to the
\* target type; for a string parsed in a nullable column a failure is None,
\* in a non-nullable column it is 0.
cast_value(kind, new_type, nullable, v) ==
  CASE kind = new_type -> Some(v)
    [] kind = "Int" /\ new_type = "Str" -> Some(to_string(v))
    [] kind = "Int" /\ new_type = "Float" -> Some(i64_as_f64(v))
    [] kind = "Int" /\ new_type = "Bool" -> Some(IF v # 0 THEN 1 ELSE 0)
    [] kind = "Float" /\ new_type = "Str" -> Some(to_string(v))
    [] kind = "Float" /\ new_type = "Int" -> Some(v)
    [] kind = "Float" /\ new_type = "Bool" -> Some(IF v # 0 THEN 1 ELSE 0)
    [] kind = "Bool" /\ new_type = "Str" -> Some(bool_to_string(v))
    [] kind = "Bool" /\ new_type \in {"Int", "Float"} -> Some(v)
    [] kind = "Str" /\ new_type \in {"Int", "Float"} ->
         IF nullable THEN parse(v)
         ELSE IF IsSome(parse(v)) THEN parse(v) ELSE Some(0)
    [] OTHER -> Some(IF v # "" THEN 1 ELSE 0)

\* The column type a Python type object selects: str, int, float and bool
\* are recognised, anything else is unsupported.
target_kind(new_type) ==
  CASE new_type = "str" -> "Str"
    [] new_type = "int" -> "Int"
    [] new_type = "float" -> "Float"
    [] new_type = "bool" -> "Bool"
    [] OTHER -> "Unsupported"

\* The match on the column in cast_column_impl: <<new column, error or "">>.
cast_col(col, new_type) ==
  IF col.type \in {"Mixed", "OptMixed"} THEN <<col, "TypeError">>
  ELSE IF col.type \in {"PyObject", "OptPyObject"} THEN <<col, "TypeError">>
  ELSE IF target_kind(new_type) = "Unsupported" THEN <<col, "TypeError">>
  ELSE LET nullable == col.type \in MutNullable
           kind == target_kind(new_type)
       IN <<TinyColumn(IF nullable THEN "Opt" \o kind ELSE kind,
              [i \in 1..Len(col.data) |->
                 IF IsNone(col.data[i]) THEN None
                 ELSE cast_value(KindOf(col.type), kind, nullable,
                                 Unwrap(col.data[i]))]),
            "">>

\* A cast that takes the column's values out before it fails.
cast_column_taking(frame, column_name, new_type) ==
  IF column_name \notin ColNames(frame) THEN <<frame, Err("KeyError")>>
  ELSE LET r == cast_col(frame.columns[column_name], new_type)
       IN IF r[2] # ""
          THEN <<[frame EXCEPT !.columns[column_name].data = <<>>], Err(r[2])>>
          ELSE <<[frame EXCEPT !.columns[column_name] = r[1]], OkUnit>>

\* cast_column_impl: <<frame after the call, PyResult<()>>>.
cast_column(frame, column_name, new_type) ==
  IF column_name \notin ColNames(frame) THEN <<frame, Err("KeyError")>>
  ELSE LET r == cast_col(frame.columns[column_name], new_type)
       IN IF r[2] # "" THEN <<frame, Err(r[2])>>
          ELSE <<[frame EXCEPT !.columns[column_name] = r[1]], OkUnit>>

\* ------------------------------------------------------------------------
\* The mutating calls
\* ------------------------------------------------------------------------
\* The lists of names a drop_columns call may take.
DropLists ==
  UNION {[1..n -> {"a", "b", "zz"}] : n \in 0..MaxDropNames}

InitMutate ==
  /\ self \in MutFrames
  /\ other = TinyFrame_new
  /\ params = <<>>
  /\ op = "init"
  /\ result = NoResult
  /\ indices = <<>>

DropColumns ==
  /\ op = "init"
  /\ \E columns_to_drop \in DropLists :
       /\ params' = [columns_to_drop |-> columns_to_drop]
       /\ self' = drop_columns(self, columns_to_drop)[1]
       /\ result' = drop_columns(self, columns_to_drop)[2]
  /\ op' = "drop_columns"
  /\ UNCHANGED <<other, indices>>

\* The Python callables an edit_column call may take.
PyFuncs ==
  {"identity", "to_none", "is_none", "to_object", "none_to_object", "raise_on_none"}

\* The Python objects a cast_column call may take as the target type.
PyTypes == {"str", "int", "float", "bool", "list"}

EditColumn ==
  /\ op = "init"
  /\ \E column_name \in {"a", "b", "zz"}, func \in PyFuncs :
       /\ params' = [column_name |-> column_name, func |-> func]
       /\ self' = edit_column(self, column_name, func)[1]
       /\ result' = edit_column(self, column_name, func)[2]
  /\ op' = "edit_column"
  /\ UNCHANGED <<other, indices>>

CastColumn ==
  /\ op = "init"
  /\ \E column_name \in {"a", "b", "zz"}, new_type \in PyTypes :
       /\ params' = [column_name |-> column_name, new_type |-> new_type]
       /\ self' = cast_column(self, column_name, new_type)[1]
       /\ result' = cast_column(self, column_name, new_type)[2]
  /\ op' = "cast_column"
  /\ UNCHANGED <<other, indices>>

NextMutate == DropColumns \/ EditColumn \/ CastColumn

SpecMutate == InitMutate /\ [][NextMutate]_vars

\* ------------------------------------------------------------------------
\* Claims on the mutating entry points
\* ------------------------------------------------------------------------
\* C12: drop_columns is all-or-nothing: when some name of the list is not a
\* column of the table, the call returns a not-found error and the set of
\* columns is what it was before the call, wherever the missing name stands.
C12_DropColumnsAllOrNothing ==
  [][(op' = "drop_columns"
      /\ \E i \in 1..Len(params'.columns_to_drop) :
           params'.columns_to_drop[i] \notin ColNames(self))
     => (/\ ~result'.ok
         /\ result'.err = "KeyError"
         /\ ColNames(self') = ColNames(self))]_vars

\* The cells of a column as Option<ValueEnum>.
ColumnValueEnums(col) ==
  [i \in 1..Len(col.data) |->
     IF IsNone(col.data[i]) THEN None
     ELSE IF col.type \in {"Mixed", "OptMixed"} THEN col.data[i]
     ELSE IF col.type \in {"PyObject", "OptPyObject"}
          THEN Some(ValueEnum("PyObjectId", Unwrap(col.data[i])))
     ELSE Some(ValueEnum(KindOf(col.type), Unwrap(col.data[i])))]

\* C17: after a successful edit_column the column's representation is the
\* one the ingestion rule gives for the transformed values: typed when they
\* are of one kind, nullable typed with a null among them, mixed or nullable
\* mixed with more than one kind.
C17_EditColumnReinfers ==
  (op = "edit_column" /\ result.ok) =>
    LET col == self.columns[params.column_name]
        vals == ColumnValueEnums(col)
    IN types_present(vals) # {} =>
         col.type = final_col_type(types_present(vals),
                                   \E i \in 1..Len(vals) : IsNone(vals[i]))

\* C18: a cast_column call that returns an error leaves the table as it
\* was: every column, the row count and the side table; and a cast of a
\* mixed or nullable mixed column always returns an error.
C18_CastErrorLeavesTable ==
  [][(op = "init" /\ op' = "cast_column") =>
       /\ ~result'.ok => self' = self
       /\ (/\ params'.column_name \in ColNames(self)
           /\ self.columns[params'.column_name].type \in {"Mixed", "OptMixed"})
            => ~result'.ok]_vars

\* Witness of C18: a cast of a non-empty mixed column has failed.
C18_Witness ==
  /\ op = "cast_column" /\ ~result.ok
  /\ params.column_name \in ColNames(self)
  /\ self.columns[params.column_name].type \in {"Mixed", "OptMixed"}
  /\ self.length > 0

\* ------------------------------------------------------------------------
\* The join-argument specification: the keyed joins of SpecJoin, called
\* with arbitrary key lists.  left has the columns "id", "tag", right the
\* columns "code", "ref"; a key list holds up to MaxJoinKeys names, "zz"
\* being a name of no column.
\* ------------------------------------------------------------------------
JoinArgTables(optName, strName) ==
  {t \in JoinTables(optName, strName) : t.length <= MaxArgRows}

JoinKeyLists(names) == UNION {[1..n -> names] : n \in 0..MaxJoinKeys}

InitJoinArgs ==
  /\ self \in JoinArgTables("id", "tag")
  /\ other \in JoinArgTables("ref", "code")
  /\ params \in [left_on : JoinKeyLists({"id", "tag", "zz"}),
                 right_on : JoinKeyLists({"code", "ref", "zz"})]
  /\ op = "init"
  /\ result = NoResult
  /\ indices = <<>>

NextJoinArgs == InnerJoin \/ LeftJoin \/ RightJoin \/ OuterJoin

SpecJoinArgs == InitJoinArgs /\ [][NextJoinArgs]_vars

\* A name of the key list that is not a column of the table.
MissingName(frame, on) == \E i \in 1..Len(on) : on[i] \notin ColNames(frame)

\* C19: a keyed join checks its key lists before any work: a name that is
\* not a column of its table, on either side, is reported as a not-found
\* error; with all names found, lists of unequal length are reported as a
\* value error; and no output is built in either case.
C19_JoinValidation ==
  (op \in {"inner_join", "left_join", "right_join", "outer_join"}) =>
    /\ (MissingName(self, params.left_on) \/ MissingName(other, params.right_on))
         => (~result.ok /\ result.err = "KeyError"
             /\ result.frame = TinyFrame_new)
    /\ (/\ ~MissingName(self, params.left_on)
        /\ ~MissingName(other, params.right_on)
        /\ Len(params.left_on) # Len(params.right_on))
         => (~result.ok /\ result.err = "ValueError"
             /\ result.frame = TinyFrame_new)

\* ------------------------------------------------------------------------
\* frame/mod.rs: impl Ord for ValueEnum
\* ------------------------------------------------------------------------
\* The float payload that stands for NaN; the other float payloads are
\* 1..NumOrdVals.
NaN == 0

\* f64::partial_cmp: None when either side is NaN.
partial_cmp(x, y) == IF x = NaN \/ y = NaN THEN None ELSE Some(Ordering(x, y))

\* ValueEnum::cmp: the payloads of two values of one kind are compared, an
\* incomparable pair of floats is Equal, and so are values of two kinds.
ValueEnum_cmp(a, b) ==
  IF a[1] # b[1] THEN "Equal"
  ELSE IF a[1] = "Float"
       THEN (IF IsSome(partial_cmp(a[2], b[2]))
             THEN Unwrap(partial_cmp(a[2], b[2])) ELSE "Equal")
  ELSE Ordering(a[2], b[2])

\* The comparison specification: three values are drawn and compared
\* pairwise.
OrdValues ==
  {ValueEnum(kind, x) :
     kind \in {"Int", "Float", "Str", "Bool", "PyObjectId"}, x \in 1..NumOrdVals}
  \cup {ValueEnum("Float", NaN)}

InitOrd ==
  /\ self = TinyFrame_new
  /\ other = TinyFrame_new
  /\ params \in [a : OrdValues, b : OrdValues, c : OrdValues]
  /\ op = "init"
  /\ result = NoResult
  /\ indices = <<>>

Cmp ==
  /\ op = "init"
  /\ op' = "cmp"
  /\ result' = [ok |-> TRUE, err |-> "", frame |-> TinyFrame_new,
                aa |-> ValueEnum_cmp(params.a, params.a),
                ab |-> ValueEnum_cmp(params.a, params.b),
                ba |-> ValueEnum_cmp(params.b, params.a),
                bc |-> ValueEnum_cmp(params.b, params.c),
                ac |-> ValueEnum_cmp(params.a, params.c)]
  /\ UNCHANGED <<self, other, params, indices>>

NextOrd == Cmp

SpecOrd == InitOrd /\ [][NextOrd]_vars

\* The parts of the total-order claim.
OrdReflexive == result.aa = "Equal"

OrdAntisymmetric == result.ab = Reverse(result.ba)

OrdTransitive ==
  (result.ab # "Greater" /\ result.bc # "Greater") => result.ac # "Greater"

OrdPerKind ==
  IF params.a[1] # params.b[1] THEN result.ab = "Equal"
  ELSE (params.a[2] # NaN /\ params.b[2] # NaN)
         => result.ab = Ordering(params.a[2], params.b[2])

\* C20: ValueEnum's comparison is a total ordering: reflexive, cmp(a, b)
\* the reverse of cmp(b, a), transitive, values of one kind ordered by
\* their payloads and values of different kinds equal.
C20_ValueEnumTotalOrder ==
  op = "cmp" =>
    (OrdReflexive /\ OrdAntisymmetric /\ OrdTransitive /\ OrdPerKind)

\* ------------------------------------------------------------------------
\* parallel/mod.rs: the groups map of parallel_groupby_sum / _mean, built by
\* fold and reduce.  A HashMap<Vec<ValueEnum>, Vec<usize>> is the set of its
\* entries <<key, indices>>; two entries may hold keys that are the same
\* value when the keys are not == to one another.
\* ------------------------------------------------------------------------
\* The derived PartialEq of ValueEnum: same kind and == payloads; a float
\* NaN is == to nothing.
ValueEnum_eq(a, b) ==
  /\ a[1] = b[1]
  /\ a[2] = b[2]
  /\ ~(a[1] = "Float" /\ a[2] = NaN)

\* Vec<ValueEnum> == Vec<ValueEnum>
key_eq(k1, k2) ==
  /\ Len(k1) = Len(k2)
  /\ \A n \in 1..Len(k1) : ValueEnum_eq(k1[n], k2[n])

\* acc.entry(key).or_insert_with(Vec::new).extend(v): the entry whose key
\* is == to key takes v at its end; without one a new entry is made.
entry_extend(acc, key, v) ==
  IF \E e \in acc : key_eq(e[1], key)
  THEN LET e == CHOOSE x \in acc : key_eq(x[1], key)
       IN (acc \ {e}) \cup {<<e[1], e[2] \o v>>}
  ELSE acc \cup {<<key, v>>}

\* The fold closure over rows lo..hi in turn:
\* acc.entry(key).or_insert_with(Vec::new).push(idx).
RECURSIVE fold_rows(_, _, _, _)
fold_rows(frame, group_keys, lo, hi) ==
  IF hi < lo THEN {}
  ELSE entry_extend(fold_rows(frame, group_keys, lo, hi - 1),
                    group_key(frame, group_keys, hi), <<hi>>)

\* The reduce closure: every entry of `drained` is put into acc.
RECURSIVE reduce_maps(_, _)
reduce_maps(acc, drained) ==
  IF drained = {} THEN acc
  ELSE LET e == CHOOSE x \in drained : TRUE
       IN reduce_maps(entry_extend(acc, e[1], e[2]), drained \ {e})

\* The contiguous pieces of rows 1..n for a set of cut positions: a piece
\* ends at every cut and at n.
pieces(n, cuts) ==
  LET ends == SortedSeq(cuts \cup {n})
  IN [m \in 1..Len(ends) |->
        <<IF m = 1 THEN 1 ELSE ends[m - 1] + 1, ends[m]>>]

\* The specification: a table with the key columns "k" (nullable float,
\* NaN among its values) and "j" (string) is drawn; the row range is split
\* into contiguous pieces that are folded into one partial map each, and
\* neighbouring partial maps are reduced until one map is left.  The
\* partial maps are kept, in row order, in `indices`.
ParKeyCells == {None, Some(NaN), Some(1)}

ParFrames ==
  {TinyFrame([c \in {"k", "j"} |->
                IF c = "k" THEN TinyColumn("OptFloat", t[1])
                ELSE TinyColumn("Str", t[2])],
             Len(t[1]))
     : t \in UNION {[1..n -> ParKeyCells] \X [1..n -> {Some(x) : x \in 1..NumParStr}]
                      : n \in 0..MaxParRows}}

InitPar ==
  /\ self \in ParFrames
  /\ other = TinyFrame_new
  /\ params \in [group_keys : {<<"k">>, <<"k", "j">>}]
  /\ op = "init"
  /\ result = NoResult
  /\ indices = <<>>

Fold ==
  /\ op = "init"
  /\ op' = "fold"
  /\ \E cuts \in SUBSET (1..(self.length - 1)) :
       indices' = IF self.length = 0 THEN <<>>
                  ELSE [m \in 1..Len(pieces(self.length, cuts)) |->
                          fold_rows(self, params.group_keys,
                                    pieces(self.length, cuts)[m][1],
                                    pieces(self.length, cuts)[m][2])]
  /\ UNCHANGED <<self, other, params, result>>

Reduce ==
  /\ op \in {"fold", "reduce"}
  /\ Len(indices) >= 2
  /\ op' = "reduce"
  /\ \E m \in 1..(Len(indices) - 1) :
       indices' = [n \in 1..(Len(indices) - 1) |->
                     IF n < m THEN indices[n]
                     ELSE IF n = m THEN reduce_maps(indices[m], indices[m + 1])
                     ELSE indices[n + 1]]
  /\ UNCHANGED <<self, other, params, result>>

NextPar == Fold \/ Reduce

SpecPar == InitPar /\ [][NextPar]_vars

\* ------------------------------------------------------------------------
\* Claims on the groups map
\* ------------------------------------------------------------------------
\* The reduction is over, and the map it leaves.
ParReduced == op \in {"fold", "reduce"} /\ Len(indices) <= 1

ParGroups == IF Len(indices) = 0 THEN {} ELSE indices[1]

\* The key tuple of row i: its key cells, a null cell being a null
\* component.
ParKeyTuple(i) ==
  [k \in 1..Len(params.group_keys) |-> self.columns[params.group_keys[k]].data[i]]

ParHasNaN(i) == \E k \in 1..Len(params.group_keys) : ParKeyTuple(i)[k] = Some(NaN)

\* Rows p and q are in one group of the map.
ParSameGroup(p, q) == \E e \in ParGroups : {p, q} \subseteq Range(e[2])

\* C21: keys that hold NaN are groupable: two rows whose key tuples hold NaN
\* in the same positions and are equal elsewhere land in one group.
C21_NaNKeysGroupable ==
  ParReduced =>
    \A p, q \in 1..self.length :
      (ParHasNaN(p) /\ ParKeyTuple(p) = ParKeyTuple(q)) => ParSameGroup(p, q)

\* C22: filter is idempotent: filtering the result of a filter with the same
\* column, operator and literal returns the same rows in the same order.
C22_FilterIdempotent ==
  op = "filter_again" => (result.ok /\ result.frame = other)

\* Witness of C22: a filter that kept some rows and dropped others has been
\* applied again to its result.
C22_Witness ==
  /\ op = "filter_again" /\ result.ok
  /\ result.frame.length > 0
  /\ result.frame.length < self.length

\* C23: cross_join(L, R) returns a table whose row count is the row count of
\* L times the row count of R, empty inputs included.
C23_CrossJoinRowCount ==
  op = "cross_join" =>
    (result.ok /\ result.frame.length = self.length * other.length)

\* ------------------------------------------------------------------------
\* chunked/mod.rs: chunked_sort and chunked_filter
\* ------------------------------------------------------------------------
\* The [start, end) ranges of the chunk loop:
\* num_chunks = (length + chunk_size - 1) / chunk_size,
\* start = chunk_idx * chunk_size, end = min(start + chunk_size, length).
chunk_ranges(length, chunk_size) ==
  [k \in 1..((length + chunk_size - 1) \div chunk_size) |->
     <<(k - 1) * chunk_size, Min(k * chunk_size, length)>>]

\* ChunkedProcessor::merge_column: the first chunk's column decides the
\* type; only the four non-nullable types are merged.
merge_column(chunks, col_name) ==
  IF col_name \notin ColNames(chunks[1]) THEN TinyColumn("KeyError", <<>>)
  ELSE LET type == chunks[1].columns[col_name].type
       IN IF type \in {"Int", "Float", "Str", "Bool"}
          THEN TinyColumn(type,
                 Concat([k \in 1..Len(chunks) |->
                           IF chunks[k].columns[col_name].type = type
                           THEN chunks[k].columns[col_name].data ELSE <<>>]))
          ELSE ErrColumn

\* ChunkedProcessor::merge_chunks
merge_chunks(chunks) ==
  IF Len(chunks) = 0 THEN Ok(TinyFrame_new)
  ELSE IF Len(chunks) = 1 THEN Ok(chunks[1])
  ELSE LET cols == [c \in ColNames(chunks[1]) |-> merge_column(chunks, c)]
           bad == {c \in ColNames(chunks[1]) : cols[c].type \in {"KeyError", "TypeError"}}
       IN IF bad # {}
          THEN Err(cols[CHOOSE c \in bad : TRUE].type)
          ELSE Ok(TinyFrame(cols, SumSeq([k \in 1..Len(chunks) |-> chunks[k].length])))

\* A k_way_merge that concatenates the sorted chunks and does not sort the
\* concatenation.
k_way_merge_concat(sorted_chunks, by, ascending) ==
  IF Len(sorted_chunks) = 0 THEN Ok(TinyFrame_new)
  ELSE IF Len(sorted_chunks) = 1 THEN Ok(sorted_chunks[1])
  ELSE merge_chunks(SelectSeq(sorted_chunks, LAMBDA c : c.length > 0))

\* ChunkedProcessor::k_way_merge: empty chunks are dropped, the rest is
\* concatenated and sorted again.
k_way_merge(sorted_chunks, by, ascending) ==
  IF Len(sorted_chunks) = 0 THEN Ok(TinyFrame_new)
  ELSE IF Len(sorted_chunks) = 1 THEN Ok(sorted_chunks[1])
  ELSE LET all_chunks == SelectSeq(sorted_chunks, LAMBDA c : c.length > 0)
       IN IF Len(all_chunks) = 0 THEN Ok(TinyFrame_new)
          ELSE LET merged == merge_chunks(all_chunks)
               IN IF merged.ok THEN parallel_sort(merged.frame, by, ascending)
                  ELSE merged

\* ChunkedProcessor::chunked_sort: the first chunk whose sort fails ends
\* the call with its error.
chunked_sort(frame, chunk_size, by, ascending) ==
  IF frame.length <= chunk_size THEN parallel_sort(frame, by, ascending)
  ELSE LET ranges == chunk_ranges(frame.length, chunk_size)
           sorted == [k \in 1..Len(ranges) |->
                        parallel_sort(create_chunk(frame, ranges[k][1], ranges[k][2]),
                                      by, ascending)]
           bad == {k \in 1..Len(ranges) : ~sorted[k].ok}
       IN IF bad # {}
          THEN sorted[CHOOSE k \in bad : \A j \in bad : k <= j]
          ELSE k_way_merge([k \in 1..Len(ranges) |-> sorted[k].frame], by, ascending)

\* ChunkedProcessor::chunked_filter: a chunk that keeps no row adds nothing
\* to the results; with no results at all the answer is TinyFrame::new().
chunked_filter(frame, chunk_size, column, condition, py_value) ==
  IF frame.length <= chunk_size
  THEN parallel_filter(frame, column, condition, py_value)
  ELSE LET ranges == chunk_ranges(frame.length, chunk_size)
           filtered == [k \in 1..Len(ranges) |->
                          parallel_filter(create_chunk(frame, ranges[k][1], ranges[k][2]),
                                          column, condition, py_value)]
           bad == {k \in 1..Len(ranges) : ~filtered[k].ok}
       IN IF bad # {}
          THEN filtered[CHOOSE k \in bad : \A j \in bad : k <= j]
          ELSE LET results == SelectSeq([k \in 1..Len(ranges) |-> filtered[k].frame],
                                        LAMBDA c : c.length > 0)
               IN IF Len(results) = 0 THEN Ok(TinyFrame_new)
                  ELSE merge_chunks(results)

\* ------------------------------------------------------------------------
\* The chunked specification: a ChunkedProcessor with a chunk size of at
\* least one, a table with a key column "a" of some type and a string
\* column "b", and the arguments of one call, of chunked_sort (key list and
\* direction) or of chunked_filter (operator and literal on column "a").
\* ------------------------------------------------------------------------
ChunkVals == {1, 2}

ChunkCellsOf(type) ==
  CASE type = "Bool" -> {Some(b) : b \in BoolVals}
    [] type = "OptInt" -> {None} \cup {Some(x) : x \in ChunkVals}
    [] OTHER -> {Some(x) : x \in ChunkVals}

ChunkTypes == {"Int", "Float", "Bool", "OptInt"}

ChunkFrames ==
  {TinyFrame([c \in {"a", "b"} |->
                IF c = "a" THEN TinyColumn(t[1], t[2]) ELSE TinyColumn("Str", t[3])],
             Len(t[2]))
     : t \in UNION {{type} \X [1..n -> ChunkCellsOf(type)] \X [1..n -> ChunkCellsOf("Str")]
                      : <<type, n>> \in ChunkTypes \X (0..MaxChunkRows)}}

ChunkSizes == 1..MaxChunkRows

ChunkSortParams ==
  [call : {"sort"}, chunk_size : ChunkSizes,
   by : {<<>>, <<"a">>, <<"a", "b">>, <<"b">>},
   ascending : {None, Some(TRUE), Some(FALSE)}]

ChunkFilterParams ==
  [call : {"filter"}, chunk_size : ChunkSizes, column : {"a"},
   condition : {"==", ">", "<="},
   value : {<<"Int", 1>>, <<"Float", 2>>, <<"Bool", 0>>}]

InitChunked ==
  /\ self \in ChunkFrames
  /\ other = TinyFrame_new
  /\ params \in ChunkSortParams \cup ChunkFilterParams
  /\ op = "init"
  /\ result = NoResult
  /\ indices = <<>>

ChunkedSort ==
  /\ op = "init"
  /\ params.call = "sort"
  /\ op' = "chunked_sort"
  /\ result' = chunked_sort(self, params.chunk_size, params.by, params.ascending)
  /\ UNCHANGED <<self, other, params, indices>>

ChunkedFilter ==
  /\ op = "init"
  /\ params.call = "filter"
  /\ op' = "chunked_filter"
  /\ result' = chunked_filter(self, params.chunk_size, params.column,
                              params.condition, params.value)
  /\ UNCHANGED <<self, other, params, indices>>

NextChunked == ChunkedSort \/ ChunkedFilter

SpecChunked == InitChunked /\ [][NextChunked]_vars

\* C24: for every chunk size of at least one, chunked_sort returns what
\* parallel_sort returns on the whole table: the same rows in the same
\* order, ties included, ascending or descending, and the same error when
\* the sort is refused.
C24_ChunkedSortIsParallelSort ==
  op = "chunked_sort" => result = parallel_sort(self, params.by, params.ascending)

\* A sorted table came out of more than one chunk, with two rows tied on
\* the key in different chunks and the order of the rows changed.
C24_Witness ==
  /\ op = "chunked_sort"
  /\ result.ok
  /\ self.length > params.chunk_size
  /\ params.by = <<"a">>
  /\ RowSeq(result.frame) # RowSeq(self)
  /\ \E p, q \in 1..self.length :
       /\ (p - 1) \div params.chunk_size # (q - 1) \div params.chunk_size
       /\ self.columns["a"].data[p] = self.columns["a"].data[q]
       /\ self.columns["b"].data[p] # self.columns["b"].data[q]

\* C25: for every chunk size of at least one, chunked_filter returns what
\* parallel_filter returns on the whole table: the same columns and the
\* same rows in the same order, also when no row matches.
C25_ChunkedFilterIsParallelFilter ==
  op = "chunked_filter" =>
    result = parallel_filter(self, params.column, params.condition, params.value)

\* The part of C25 that holds: when some row is kept, or the table fits in
\* one chunk, the two filters agree.
C25_AgreeWhenSomeRowMatches ==
  (op = "chunked_filter"
     /\ (self.length <= params.chunk_size \/ ~result.ok \/ result.frame.length > 0)) =>
    result = parallel_filter(self, params.column, params.condition, params.value)

\* ------------------------------------------------------------------------
\* simd/mod.rs: the numeric kernels of SimdOps
\* ------------------------------------------------------------------------
\* An f64 is the fraction <<n, d>> in lowest terms with d > 0; <<0, 0>> is
\* NaN (0.0 / 0.0) and <<1, 0>>, <<-1, 0>> are the infinities. The values
\* drawn are small, so every sum, product and quotient taken here is exact.
f64_nan == <<0, 0>>

f64_of(n) == <<n, 1>>

Abs(n) == IF n < 0 THEN -n ELSE n

RECURSIVE Gcd(_, _)
Gcd(a, b) == IF b = 0 THEN a ELSE Gcd(b, a % b)

f64_norm(n, d) ==
  IF d = 0 THEN (IF n = 0 THEN f64_nan ELSE IF n > 0 THEN <<1, 0>> ELSE <<-1, 0>>)
  ELSE LET g == Gcd(Abs(n), Abs(d))
           sgn == IF d < 0 THEN -1 ELSE 1
       IN <<sgn * (n \div g), sgn * (d \div g)>>

f64_add(a, b) ==
  IF a = f64_nan \/ b = f64_nan THEN f64_nan
  ELSE IF a[2] = 0 /\ b[2] = 0 THEN (IF a = b THEN a ELSE f64_nan)
  ELSE IF a[2] = 0 THEN a
  ELSE IF b[2] = 0 THEN b
  ELSE f64_norm(a[1] * b[2] + b[1] * a[2], a[2] * b[2])

f64_neg(a) == <<-a[1], a[2]>>

f64_mul(a, b) ==
  IF a = f64_nan \/ b = f64_nan THEN f64_nan
  ELSE f64_norm(a[1] * b[1], a[2] * b[2])

\* a / b; dividing zero by zero is NaN.
f64_div(a, b) ==
  IF a = f64_nan \/ b = f64_nan THEN f64_nan
  ELSE IF b[1] < 0 THEN f64_norm(-(a[1] * b[2]), a[2] * (-b[1]))
  ELSE f64_norm(a[1] * b[2], a[2] * b[1])

\* a < b for two numbers that are not NaN.
f64_lt(a, b) == a[1] * b[2] < b[1] * a[2]

\* f64::sqrt: exact on a fraction of perfect squares; any other positive
\* value is kept as the root of its argument; NaN for NaN and negatives.
f64_sqrt(a) ==
  IF a = f64_nan \/ a[1] < 0 THEN f64_nan
  ELSE IF \E r \in 0..a[1] : r * r = a[1] /\ \E q \in 0..a[2] : q * q = a[2]
  THEN <<CHOOSE r \in 0..a[1] : r * r = a[1], CHOOSE q \in 0..a[2] : q * q = a[2]>>
  ELSE <<"sqrt", a>>

\* iter().sum::<f64>()
RECURSIVE f64_sum(_)
f64_sum(s) == IF Len(s) = 0 THEN f64_of(0) ELSE f64_add(f64_sum(SubSeq(s, 1, Len(s) - 1)), s[Len(s)])

\* chunks_exact(4): lane j of the whole chunks, and the remainder.
lane(data, j) == [c \in 1..(Len(data) \div 4) |-> data[4 * (c - 1) + j]]

remainder(data) == SubSeq(data, 4 * (Len(data) \div 4) + 1, Len(data))

\* SimdOps::sum_i64: below eight elements the plain sum; from eight on four
\* lanes are added chunk by chunk, then the lanes and the remainder.
sum_i64(data) ==
  IF Len(data) < 8 THEN i64_sum(data)
  ELSE wrap_i64(wrap_i64(wrap_i64(wrap_i64(i64_sum(lane(data, 1)) + i64_sum(lane(data, 2)))
                                  + i64_sum(lane(data, 3)))
                         + i64_sum(lane(data, 4)))
                + i64_sum(remainder(data)))

\* SimdOps::sum_f64: below four elements the plain sum, else lanes and
\* remainder.
sum_f64(data) ==
  IF Len(data) < 4 THEN f64_sum(data)
  ELSE f64_add(f64_add(f64_add(f64_add(f64_sum(lane(data, 1)), f64_sum(lane(data, 2))),
                               f64_sum(lane(data, 3))),
                       f64_sum(lane(data, 4))),
               f64_sum(remainder(data)))

\* SimdOps::mean_f64: sum / data.len() as f64, with no test for the empty
\* slice.
mean_f64(data) == f64_div(sum_f64(data), f64_of(Len(data)))

\* SimdOps::min_max_i64: (0, 0) for the empty slice; the vector path and
\* the plain path both answer the least and the greatest element.
min_max_i64(data) ==
  IF Len(data) = 0 THEN <<0, 0>>
  ELSE <<CHOOSE m \in Range(data) : \A x \in Range(data) : m <= x,
         CHOOSE m \in Range(data) : \A x \in Range(data) : x <= m>>

\* SimdOps::min_max_f64
min_max_f64(data) ==
  IF Len(data) = 0 THEN <<f64_of(0), f64_of(0)>>
  ELSE <<CHOOSE m \in Range(data) : \A x \in Range(data) : ~f64_lt(x, m),
         CHOOSE m \in Range(data) : \A x \in Range(data) : ~f64_lt(m, x)>>

\* SimdOps::variance_f64: 0.0 below two elements, else the sum of the
\* squared distances to the mean over len - 1.
variance_f64(data) ==
  IF Len(data) < 2 THEN f64_of(0)
  ELSE LET mean == mean_f64(data)
           sq == [i \in 1..Len(data) |->
                    f64_mul(f64_add(data[i], f64_neg(mean)),
                            f64_add(data[i], f64_neg(mean)))]
       IN f64_div(sum_f64(sq), f64_of(Len(data) - 1))

\* SimdOps::std_dev_f64
std_dev_f64(data) == f64_sqrt(variance_f64(data))

\* ------------------------------------------------------------------------
\* The kernel specification: a slice of up to MaxSimdLen small integers is
\* drawn; a kernel is called on it, the f64 kernels on the same numbers as
\* f64.
\* ------------------------------------------------------------------------
SimdVals == {-1, 0, 2, 3}

SimdSlices == UNION {[1..n -> SimdVals] : n \in 0..MaxSimdLen}

as_f64_slice(data) == [i \in 1..Len(data) |-> f64_of(data[i])]

InitSimd ==
  /\ self = TinyFrame_new
  /\ other = TinyFrame_new
  /\ params \in [data : SimdSlices]
  /\ op = "init"
  /\ result = NoResult
  /\ indices = <<>>

SumI64 ==
  /\ op = "init"
  /\ op' = "sum_i64"
  /\ result' = sum_i64(params.data)
  /\ UNCHANGED <<self, other, params, indices>>

SumF64 ==
  /\ op = "init"
  /\ op' = "sum_f64"
  /\ result' = sum_f64(as_f64_slice(params.data))
  /\ UNCHANGED <<self, other, params, indices>>

MeanF64 ==
  /\ op = "init"
  /\ op' = "mean_f64"
  /\ result' = mean_f64(as_f64_slice(params.data))
  /\ UNCHANGED <<self, other, params, indices>>

MinMaxI64 ==
  /\ op = "init"
  /\ op' = "min_max_i64"
  /\ result' = min_max_i64(params.data)
  /\ UNCHANGED <<self, other, params, indices>>

MinMaxF64 ==
  /\ op = "init"
  /\ op' = "min_max_f64"
  /\ result' = min_max_f64(as_f64_slice(params.data))
  /\ UNCHANGED <<self, other, params, indices>>

VarianceF64 ==
  /\ op = "init"
  /\ op' = "variance_f64"
  /\ result' = variance_f64(as_f64_slice(params.data))
  /\ UNCHANGED <<self, other, params, indices>>

StdDevF64 ==
  /\ op = "init"
  /\ op' = "std_dev_f64"
  /\ result' = std_dev_f64(as_f64_slice(params.data))
  /\ UNCHANGED <<self, other, params, indices>>

NextSimd ==
  SumI64 \/ SumF64 \/ MeanF64 \/ MinMaxI64 \/ MinMaxF64 \/ VarianceF64 \/ StdDevF64

SpecSimd == InitSimd /\ [][NextSimd]_vars

\* What the kernel named by op is to answer on the empty slice and on a
\* slice of the single element x.
SimdEmptyValue ==
  CASE op = "sum_i64" -> 0
    [] op = "min_max_i64" -> <<0, 0>>
    [] op = "min_max_f64" -> <<f64_of(0), f64_of(0)>>
    [] OTHER -> f64_of(0)

SimdSingleValue(x) ==
  CASE op = "sum_i64" -> x
    [] op = "min_max_i64" -> <<x, x>>
    [] op = "min_max_f64" -> <<f64_of(x), f64_of(x)>>
    [] op \in {"sum_f64", "mean_f64"} -> f64_of(x)
    [] OTHER -> f64_of(0)

\* C26: on the empty slice every kernel answers its identity (0 for the
\* sums, the mean, the variance and the standard deviation, (0, 0) for
\* min/max); on a single element the sums, the mean, the minimum and the
\* maximum are that element and the variance and standard deviation are 0.
C26_KernelEdgeCases ==
  op # "init" =>
    /\ Len(params.data) = 0 => result = SimdEmptyValue
    /\ Len(params.data) = 1 => result = SimdSingleValue(params.data[1])

\* The part of C26 that holds: every case but the mean of the empty slice.
C26_EdgeCasesButEmptyMean ==
  (op # "init" /\ ~(op = "mean_f64" /\ Len(params.data) = 0)) =>
    /\ Len(params.data) = 0 => result = SimdEmptyValue
    /\ Len(params.data) = 1 => result = SimdSingleValue(params.data[1])

\* The mean of the empty slice is NaN.
C26_EmptyMeanIsNaN ==
  (op = "mean_f64" /\ Len(params.data) = 0) => result = f64_nan

\* ------------------------------------------------------------------------
\* The fold and reduce of the parallel group-by
\* ------------------------------------------------------------------------
\* The key cells of row i as the table holds them, a null cell being a null
\* component of the tuple.
ParRowKey(i) ==
  [k \in 1..Len(params.group_keys) |->
     Parallel_get_value_at_index(self.columns[params.group_keys[k]], i)]

\* Every row index is in the merged map exactly once.
ParEachRowOnce ==
  /\ \A i \in 1..self.length : \E e \in ParGroups : i \in Range(e[2])
  /\ \A e \in ParGroups :
       /\ \A m, n \in 1..Len(e[2]) : e[2][m] = e[2][n] => m = n
       /\ \A f \in ParGroups : (Range(e[2]) \cap Range(f[2]) # {}) => e = f

\* The merged map is the map one fold over all the rows leaves.
ParAsOnePass == ParGroups = fold_rows(self, params.group_keys, 1, self.length)

\* Every entry is keyed by the key tuple of each of its rows.
ParUnderRowKey ==
  \A e \in ParGroups : \A i \in Range(e[2]) :
    [k \in 1..Len(e[1]) |-> Some(e[1][k])] = ParRowKey(i)

\* C27: however the rows are split among the workers and in whatever order
\* the partial maps are reduced, the merged map holds each row index
\* exactly once, under the key tuple of that row, and has the groups of a
\* single sequential pass.
C27_FoldReduceGroups ==
  ParReduced => (ParEachRowOnce /\ ParUnderRowKey /\ ParAsOnePass)

\* The part of C27 that holds: each row once, and the map of one pass, for
\* every split and every reduce order.
C27_SplitAndOrderIndependent ==
  ParReduced => (ParEachRowOnce /\ ParAsOnePass)

\* Without null key cells the entries are keyed by the rows' key tuples.
C27_UnderRowKeyWithoutNulls ==
  (ParReduced /\ \A i \in 1..self.length : \A k \in 1..Len(params.group_keys) :
                   IsSome(ParRowKey(i)[k])) => ParUnderRowKey

\* ------------------------------------------------------------------------
\* The side table of the tables the operators return
\* ------------------------------------------------------------------------
\* A returned table with the side table the operator gives it.
with_objects(res, py_objects) ==
  IF res.ok
  THEN Ok(TinyFrameObj(res.frame.columns, res.frame.length, py_objects))
  ELSE res

\* TinyFrame::dropna: the rows whose cell in the column is not null.
dropna(frame, column) ==
  IF column \notin ColNames(frame) THEN Err("KeyError")
  ELSE filter_by_indices(frame,
         SelectSeq(Upto(frame.length),
                   LAMBDA i : IsSome(frame.columns[column].data[i])))

\* The py_objects field of the result, operator by operator.
\* filter, dropna and sort_values end in filter_by_indices, which clones
\* the table's side table.
filter_by_indices_objects(frame) == frame.py_objects

\* create_chunk clones the table's side table.
create_chunk_objects(frame) == frame.py_objects

\* merge_chunks takes the side table of the first chunk; a single chunk is
\* returned as it is.
merge_chunks_objects(chunks) ==
  IF Len(chunks) = 0 THEN <<>> ELSE chunks[1].py_objects

\* inner, left, outer and cross join clone the left table's side table,
\* right join the right table's.
join_objects(l, r, join_type) ==
  IF join_type = "Right" THEN r.py_objects ELSE l.py_objects

\* ------------------------------------------------------------------------
\* The side-table specification: a left table with a key column "id" and a
\* nullable opaque column "obj", a right table with "id" and an opaque
\* column "ref", each with the side table ingestion gives it (one entry
\* per handle of the table); then one operator is called.
\* ------------------------------------------------------------------------
SideIds == {1, 2}

LeftHandles == {1, 2}

RightHandles == {2, 3}

\* The object behind handle h.
ObjectOf(h) == 100 + h

\* The opaque handles in the columns of a table.
Handles(frame) ==
  UNION {{Unwrap(frame.columns[c].data[i]) :
            i \in {j \in 1..Len(frame.columns[c].data) : IsSome(frame.columns[c].data[j])}}
           : c \in {d \in ColNames(frame) :
                      frame.columns[d].type \in {"PyObject", "OptPyObject"}}}

SideTable(name, type, ids, cells) ==
  LET cols == [c \in {"id", name} |->
                 IF c = "id" THEN TinyColumn("Int", ids) ELSE TinyColumn(type, cells)]
      hs == {Unwrap(cells[i]) : i \in {j \in 1..Len(cells) : IsSome(cells[j])}}
  IN TinyFrameObj(cols, Len(ids), [h \in hs |-> ObjectOf(h)])

SideLeftTables ==
  {SideTable("obj", "OptPyObject", t[1], t[2])
     : t \in UNION {[1..n -> {Some(x) : x \in SideIds}]
                      \X [1..n -> {None} \cup {Some(h) : h \in LeftHandles}]
                      : n \in 0..MaxSideRows}}

SideRightTables ==
  {SideTable("ref", "PyObject", t[1], t[2])
     : t \in UNION {[1..n -> {Some(x) : x \in SideIds}]
                      \X [1..n -> {Some(h) : h \in RightHandles}]
                      : n \in 0..MaxSideRows}}

InitSide ==
  /\ self \in SideLeftTables
  /\ other \in SideRightTables
  /\ params = [on |-> <<"id">>]
  /\ op = "init"
  /\ result = NoResult
  /\ indices = <<>>

SideInnerJoin ==
  /\ op = "init"
  /\ op' = "inner_join"
  /\ result' = with_objects(perform_join(self, other, params.on, params.on, "Inner"),
                            join_objects(self, other, "Inner"))
  /\ UNCHANGED <<self, other, params, indices>>

SideLeftJoin ==
  /\ op = "init"
  /\ op' = "left_join"
  /\ result' = with_objects(perform_join(self, other, params.on, params.on, "Left"),
                            join_objects(self, other, "Left"))
  /\ UNCHANGED <<self, other, params, indices>>

SideRightJoin ==
  /\ op = "init"
  /\ op' = "right_join"
  /\ result' = with_objects(perform_join(self, other, params.on, params.on, "Right"),
                            join_objects(self, other, "Right"))
  /\ UNCHANGED <<self, other, params, indices>>

SideOuterJoin ==
  /\ op = "init"
  /\ op' = "outer_join"
  /\ result' = with_objects(perform_join(self, other, params.on, params.on, "Outer"),
                            join_objects(self, other, "Outer"))
  /\ UNCHANGED <<self, other, params, indices>>

\* cross_join of the left table's opaque column with the right table (the
\* two then share no column name).
SideCrossJoin ==
  /\ op = "init"
  /\ op' = "cross_join"
  /\ result' = with_objects(cross_join([self EXCEPT !.columns = [c \in {"obj"} |-> self.columns[c]]],
                                       other),
                            join_objects(self, other, "Cross"))
  /\ UNCHANGED <<self, other, params, indices>>

SideFilter ==
  /\ op = "init"
  /\ op' = "filter"
  /\ \E x \in SideIds :
       result' = with_objects(filter(self, "id", "==", <<"Int", x>>),
                              filter_by_indices_objects(self))
  /\ UNCHANGED <<self, other, params, indices>>

SideDropna ==
  /\ op = "init"
  /\ op' = "dropna"
  /\ result' = with_objects(dropna(self, "obj"), filter_by_indices_objects(self))
  /\ UNCHANGED <<self, other, params, indices>>

SideSortValues ==
  /\ op = "init"
  /\ op' = "sort_values"
  /\ \E ascending \in {None, Some(FALSE)} :
       result' = with_objects(sort_values(self, <<"id">>, ascending),
                              filter_by_indices_objects(self))
  /\ UNCHANGED <<self, other, params, indices>>

SideCreateChunk ==
  /\ op = "init"
  /\ op' = "create_chunk"
  /\ \E start \in 0..self.length : \E end_ \in start..self.length :
       result' = with_objects(Ok(create_chunk(self, start, end_)),
                              create_chunk_objects(self))
  /\ UNCHANGED <<self, other, params, indices>>

\* The chunks of the left table's key column, one row each, merged again.
SideMergeChunks ==
  /\ op = "init"
  /\ op' = "merge_chunks"
  /\ LET keyed == [self EXCEPT !.columns = [c \in {"id"} |-> self.columns[c]]]
         ranges == chunk_ranges(self.length, 1)
         chunks == [k \in 1..Len(ranges) |->
                      TinyFrameObj(create_chunk(keyed, ranges[k][1], ranges[k][2]).columns,
                                   1, create_chunk_objects(keyed))]
     IN result' = with_objects(merge_chunks(chunks), merge_chunks_objects(chunks))
  /\ UNCHANGED <<self, other, params, indices>>

NextSide ==
  \/ SideInnerJoin \/ SideLeftJoin \/ SideRightJoin \/ SideOuterJoin \/ SideCrossJoin
  \/ SideFilter \/ SideDropna \/ SideSortValues \/ SideCreateChunk \/ SideMergeChunks

SpecSide == InitSide /\ [][NextSide]_vars

\* Every handle in a column of the returned table is a key of the returned
\* table's side table.
SideResolves ==
  result.ok => Handles(result.frame) \subseteq DOMAIN result.frame.py_objects

\* C28: after filter, sort, dropna, chunk slicing and merging and the five
\* joins, every opaque handle in a column of the returned table is a key
\* of the returned table's side table.
C28_HandlesResolve == op # "init" => SideResolves

\* The part of C28 that holds: the operators on one table.
C28_OneTableOperators ==
  op \in {"filter", "dropna", "sort_values", "create_chunk", "merge_chunks"} =>
    (SideResolves /\ (result.ok => result.frame.py_objects = self.py_objects))

\* ------------------------------------------------------------------------
\* frame/fillna.rs and TinyFrame::rename_column
\* ------------------------------------------------------------------------
\* fill_column: the value is extracted as the column's type before any cell
\* is looked at; <<column after the call, error or "">>.  Columns that are
\* not nullable, and nullable opaque columns, are left alone.
fill_column(col, value) ==
  LET fill(x) == TinyColumn(col.type,
                   [i \in 1..Len(col.data) |->
                      IF IsNone(col.data[i]) THEN Some(x) ELSE col.data[i]])
  IN CASE col.type = "OptStr" ->
            (IF value[1] = "Str" THEN <<fill(value[2]), "">> ELSE <<col, "TypeError">>)
       [] col.type = "OptInt" ->
            (IF value[1] \in {"Int", "Bool"}
             THEN (IF extract_fails(value) THEN <<col, "OverflowError">>
                   ELSE <<fill(value[2]), "">>)
             ELSE <<col, "TypeError">>)
       [] col.type = "OptFloat" ->
            (IF value[1] \in {"Int", "Float", "Bool"} THEN <<fill(value[2]), "">>
             ELSE <<col, "TypeError">>)
       [] col.type = "OptBool" ->
            (IF value[1] = "Bool" THEN <<fill(value[2]), "">> ELSE <<col, "TypeError">>)
       [] col.type = "OptMixed" ->
            (IF value[1] \in {"Bool", "Float", "Str"}
             THEN <<fill(ValueEnum(value[1], value[2])), "">>
             ELSE IF value[1] = "Int"
             THEN (IF extract_fails(value) THEN <<col, "OverflowError">>
                   ELSE <<fill(ValueEnum("Int", value[2])), "">>)
             ELSE <<col, "TypeError">>)
       [] OTHER -> <<col, "">>

\* convert_if_fully_filled: a nullable column without a null becomes its
\* non-nullable type (the opaque columns excepted).
convert_if_fully_filled(col) ==
  IF col.type \in {"OptInt", "OptFloat", "OptBool", "OptStr", "OptMixed"}
     /\ \A i \in 1..Len(col.data) : IsSome(col.data[i])
  THEN TinyColumn(CASE col.type = "OptInt" -> "Int"
                    [] col.type = "OptFloat" -> "Float"
                    [] col.type = "OptBool" -> "Bool"
                    [] col.type = "OptStr" -> "Str"
                    [] OTHER -> "Mixed",
                  col.data)
  ELSE col

\* The loop of fillna_impl over <<column name, value>> items: a missing
\* column or a failed extraction ends the call, the columns filled before
\* stay filled.
RECURSIVE fill_items(_, _)
fill_items(columns, items) ==
  IF Len(items) = 0 THEN <<columns, "">>
  ELSE LET name == items[1][1]
       IN IF name \notin DOMAIN columns THEN <<columns, "KeyError">>
          ELSE LET r == fill_column(columns[name], items[1][2])
               IN IF r[2] # "" THEN <<columns, r[2]>>
                  ELSE fill_items([columns EXCEPT ![name] = convert_if_fully_filled(r[1])],
                                  Tail(items))

\* fillna_impl: a dict is walked in its own order; a single value is given
\* to every column, in the iteration order of the column map.  The set of
\* <<frame after the call, PyResult<()>>>; the side table is not touched.
fillna(frame, value) ==
  LET done(r) == <<[frame EXCEPT !.columns = r[1]],
                   IF r[2] = "" THEN OkUnit ELSE Err(r[2])>>
  IN IF value[1] = "Dict"
     THEN {done(fill_items(frame.columns, value[2]))}
     ELSE {done(fill_items(frame.columns,
                           [k \in 1..Len(order) |-> <<order[k], value>>]))
             : order \in Orderings(ColNames(frame))}

\* TinyFrame::rename_column: <<frame after the call, PyResult<()>>>.
rename_column(frame, old_name, new_name) ==
  IF old_name \notin ColNames(frame) THEN <<frame, Err("KeyError")>>
  ELSE IF new_name \in ColNames(frame) THEN <<frame, Err("ValueError")>>
  ELSE <<[frame EXCEPT !.columns =
            [c \in (ColNames(frame) \ {old_name}) \cup {new_name} |->
               IF c = new_name THEN frame.columns[old_name] ELSE frame.columns[c]]],
         OkUnit>>

\* ------------------------------------------------------------------------
\* The specification of sequences of mutating calls: a table as ingestion
\* leaves it (column "a" opaque, nullable opaque, nullable integer or
\* string, column "b" integer) takes up to MaxCalls calls of edit_column,
\* fillna, cast_column, drop_columns and rename_column; params counts them.
\* ------------------------------------------------------------------------
SeqFrames ==
  {f \in MutFrames :
     /\ f.columns["a"].type \in {"PyObject", "OptPyObject", "OptInt", "Str"}
     /\ \A i \in 1..f.length : f.columns["b"].data[i] = Some(0)}

SeqNames == {"a", "b", "c"}

FillValues ==
  {<<"Int", 1>>, <<"Str", "x">>, PyNone,
   <<"Dict", <<>>>>, <<"Dict", <<<<"a", <<"Int", 1>>>>>>>>,
   <<"Dict", <<<<"b", <<"Int", 1>>>>, <<"c", <<"Str", "x">>>>>>>>}

InitSeq ==
  /\ self \in SeqFrames
  /\ other = TinyFrame_new
  /\ params = [calls |-> 0]
  /\ op = "init"
  /\ result = NoResult
  /\ indices = <<>>

CallEditColumn ==
  /\ params.calls < MaxCalls
  /\ \E column_name \in SeqNames, func \in PyFuncs :
       /\ self' = edit_column(self, column_name, func)[1]
       /\ result' = edit_column(self, column_name, func)[2]
  /\ op' = "edit_column"
  /\ params' = [calls |-> params.calls + 1]
  /\ UNCHANGED <<other, indices>>

CallFillna ==
  /\ params.calls < MaxCalls
  /\ \E value \in FillValues : \E o \in fillna(self, value) :
       /\ self' = o[1]
       /\ result' = o[2]
  /\ op' = "fillna"
  /\ params' = [calls |-> params.calls + 1]
  /\ UNCHANGED <<other, indices>>

CallCastColumn ==
  /\ params.calls < MaxCalls
  /\ \E column_name \in SeqNames, new_type \in PyTypes :
       /\ self' = cast_column(self, column_name, new_type)[1]
       /\ result' = cast_column(self, column_name, new_type)[2]
  /\ op' = "cast_column"
  /\ params' = [calls |-> params.calls + 1]
  /\ UNCHANGED <<other, indices>>

CallDropColumns ==
  /\ params.calls < MaxCalls
  /\ \E columns_to_drop \in DropLists :
       /\ self' = drop_columns(self, columns_to_drop)[1]
       /\ result' = drop_columns(self, columns_to_drop)[2]
  /\ op' = "drop_columns"
  /\ params' = [calls |-> params.calls + 1]
  /\ UNCHANGED <<other, indices>>

CallRenameColumn ==
  /\ params.calls < MaxCalls
  /\ \E old_name \in SeqNames, new_name \in SeqNames :
       /\ self' = rename_column(self, old_name, new_name)[1]
       /\ result' = rename_column(self, old_name, new_name)[2]
  /\ op' = "rename_column"
  /\ params' = [calls |-> params.calls + 1]
  /\ UNCHANGED <<other, indices>>

NextSeq ==
  CallEditColumn \/ CallFillna \/ CallCastColumn \/ CallDropColumns \/ CallRenameColumn

SpecSeq == InitSeq /\ [][NextSeq]_vars

\* C29: across any sequence of edit_column, fillna, cast_column,
\* drop_columns and rename_column the side table is append-only: every
\* handle present before a call is present, with its object, after it,
\* whether the call succeeds or fails.
C29_SideTableAppendOnly ==
  [][\A id \in DOMAIN self.py_objects :
       /\ id \in DOMAIN self'.py_objects
       /\ self'.py_objects[id] = self.py_objects[id]]_vars

\* After MaxCalls calls, the last of which failed, the table has lost the
\* column that held a handle and the side table holds that handle and one
\* that a call added.
C29_Witness ==
  /\ params.calls = MaxCalls
  /\ ~result.ok
  /\ \A c \in ColNames(self) : HandlesOf(self.columns[c]) = {}
  /\ DOMAIN self.py_objects = {7, 8}

\* ------------------------------------------------------------------------
\* chunked/mod.rs: StreamingProcessor
\*
\* usize is scaled to UsizeLimit = 2^64 and one mebibyte (1024 * 1024) to
\* MiB; the element sizes are those of a 64-bit build.  The payload of a
\* string cell is the byte length of the string.
\* ------------------------------------------------------------------------
UsizeLimit == 256

MiB == 16

\* A usize product: exact below 2^64; above it the build decides, a panic
\* with overflow checks and the wrapped value without them.
usize_mul(a, b) ==
  IF a * b < UsizeLimit THEN {[panicked |-> FALSE, value |-> a * b]}
  ELSE {[panicked |-> TRUE, value |-> 0],
        [panicked |-> FALSE, value |-> (a * b) % UsizeLimit]}

\* std::mem::size_of of the element of a column type.
size_of(type) ==
  CASE type \in {"Int", "Float", "PyObject"} -> 8
    [] type \in {"Bool", "OptBool"} -> 1
    [] type \in {"Str", "OptStr"} -> 24
    [] OTHER -> 16

\* The match arm of estimate_memory_usage: the element size times the
\* length, plus the bytes of the strings.
column_bytes(col) ==
  Len(col.data) * size_of(col.type)
  + (IF col.type \in {"Str", "OptStr"}
     THEN SumSeq([i \in 1..Len(col.data) |->
                    IF IsSome(col.data[i]) THEN Unwrap(col.data[i]) ELSE 0])
     ELSE 0)

RECURSIVE total_bytes(_, _)
total_bytes(columns, names) ==
  IF names = {} THEN 0
  ELSE LET c == CHOOSE x \in names : TRUE
       IN column_bytes(columns[c]) + total_bytes(columns, names \ {c})

\* StreamingProcessor::estimate_memory_usage
estimate_memory_usage(frame) == total_bytes(frame.columns, ColNames(frame))

\* StreamingProcessor::get_optimal_chunk_size: the set of outcomes.
get_optimal_chunk_size(max_memory_mb, frame) ==
  LET memory_usage == estimate_memory_usage(frame)
  IN UNION {IF target.panicked THEN {target}
            ELSE IF memory_usage <= target.value
            THEN {[panicked |-> FALSE, value |-> frame.length]}
            ELSE {IF m.panicked THEN m
                  ELSE [panicked |-> FALSE, value |-> m.value \div memory_usage]
                    : m \in usize_mul(frame.length, target.value)}
              : target \in usize_mul(max_memory_mb, MiB)}

\* ChunkedProcessor::process_large_dataset, the tiles handed to the
\* processor: the whole table when it fits one chunk, else the ranges of
\* the chunk loop; a chunk size of zero divides by zero.
process_large_dataset_tiles(frame, chunk_size) ==
  IF frame.length <= chunk_size
  THEN [panicked |-> FALSE, tiles |-> <<<<0, frame.length>>>>]
  ELSE IF chunk_size = 0 THEN [panicked |-> TRUE, tiles |-> <<>>]
  ELSE [panicked |-> FALSE, tiles |-> chunk_ranges(frame.length, chunk_size)]

\* ------------------------------------------------------------------------
\* The streaming specification: a table with one column (integer, boolean,
\* nullable integer, or string with cells of 0, 8 or 40 bytes) and a
\* memory budget are drawn; the chunk size is computed and the table is
\* processed with it.
\* ------------------------------------------------------------------------
StreamCells(type) ==
  IF type = "Str" THEN {Some(0), Some(8), Some(40)} ELSE {Some(1)}

StreamFrames ==
  {TinyFrame([c \in {"a"} |-> TinyColumn(t[1], t[2])], Len(t[2]))
     : t \in UNION {{type} \X [1..n -> StreamCells(type)]
                      : <<type, n>> \in {"Int", "Bool", "OptInt", "Str"}
                                          \X (0..MaxStreamRows)}}

MemoryMbs == {0, 1, 2, 3, 6, 16}

InitStream ==
  /\ self \in StreamFrames
  /\ other = TinyFrame_new
  /\ params \in [max_memory_mb : MemoryMbs]
  /\ op = "init"
  /\ result = NoResult
  /\ indices = <<>>

GetOptimalChunkSize ==
  /\ op = "init"
  /\ op' = "get_optimal_chunk_size"
  /\ result' \in get_optimal_chunk_size(params.max_memory_mb, self)
  /\ UNCHANGED <<self, other, params, indices>>

\* ChunkedProcessor::new(chunk_size) with the size computed, then
\* process_large_dataset; `indices` takes the tiles.
ProcessLargeDataset ==
  /\ op = "get_optimal_chunk_size"
  /\ ~result.panicked
  /\ op' = "process_large_dataset"
  /\ LET r == process_large_dataset_tiles(self, result.value)
     IN /\ result' = [result EXCEPT !.panicked = r.panicked]
        /\ indices' = r.tiles
  /\ UNCHANGED <<self, other, params>>

NextStream == GetOptimalChunkSize \/ ProcessLargeDataset

SpecStream == InitStream /\ [][NextStream]_vars

\* The tiles are ceil(N / chunk_size) non-empty contiguous ranges that
\* cover rows 0..N-1 exactly once.
TilesCover ==
  /\ Len(indices) = (self.length + result.value - 1) \div result.value
  /\ indices[1][1] = 0
  /\ indices[Len(indices)][2] = self.length
  /\ \A k \in 1..Len(indices) : indices[k][1] < indices[k][2]
  /\ \A k \in 1..(Len(indices) - 1) : indices[k][2] = indices[k + 1][1]

\* C30: for every non-empty table and every max_memory_mb the chunk size
\* is between 1 and the row count, and processing with it yields
\* ceil(N / chunk_size) non-empty contiguous tiles that cover the rows
\* exactly once.
C30_ChunkSizeInRange ==
  (op # "init" /\ self.length > 0) =>
    /\ ~result.panicked
    /\ 1 <= result.value
    /\ result.value <= self.length
    /\ op = "process_large_dataset" => TilesCover

\* The part of C30 that holds: a chunk size that is computed is at most
\* the row count, and one of at least 1 yields the tiles of the claim.
C30_WhenAtLeastOne ==
  (op # "init" /\ self.length > 0 /\ ~result.panicked) =>
    /\ result.value <= self.length
    /\ (op = "process_large_dataset" /\ result.value >= 1) => TilesCover

\* With a budget of at least one mebibyte, no row above the budget and no
\* overflow the chunk size is in range.
C30_WhenRowsFitBudget ==
  (op # "init" /\ self.length > 0 /\ params.max_memory_mb >= 1
     /\ self.length * params.max_memory_mb * MiB < UsizeLimit
     /\ \A i \in 1..self.length :
          size_of(self.columns["a"].type)
            + (IF self.columns["a"].type = "Str" THEN Unwrap(self.columns["a"].data[i]) ELSE 0)
          <= params.max_memory_mb * MiB) =>
    (~result.panicked /\ 1 <= result.value /\ result.value <= self.length)

====
